---- MODULE Spec2Model ----
(***************************************************************************)
(* Card tracking, deck accounting and frame processing of the blackjack    *)
(* hand-detection repository.                                              *)
(*                                                                         *)
(* Numbers with a fractional part in the source (overlap ratios,           *)
(* confidences, thresholds) are kept exact: an overlap ratio is a pair     *)
(* num/den of integers, a confidence and a threshold are hundredths.       *)
(***************************************************************************)
EXTENDS Integers, Sequences, FiniteSets, TLC

(***************************************************************************)
(* Bounds of the model.                                                    *)
(***************************************************************************)
\* processed frames per run of the analyzer
MaxTicks == 4
\* detections per frame
MaxDet == 2
\* detections per run
MaxFed == 3
\* largest confirmation_frames / disappear_frames a run is configured with
MaxConfirm == 3
MaxDisappear == 3
\* ticks of a single-card run, and the largest confirmation_frames of one
MaxCardTicks == 7
MaxCardConfirm == 4
\* largest size a CardDeck is constructed with, and successful removals per run
MaxDeckSize == 2
MaxRemovals == 5
\* largest coordinate of a rectangle handed to compute_overlap
MaxCoord == 3
\* detections handed to apply_nms
MaxNms == 3
\* boxes handed to group_cards
MaxHand == 4
\* frames read by the main loop
MaxFrames == 3
\* cards in a hand handed to calculate_hand_score
MaxScored == 3
\* ranks not yet exhausted in a deck that play has run down
MaxRanksLeft == 1

(***************************************************************************)
(* Program constants (src/config.py).                                      *)
(***************************************************************************)
\* 0.1, in hundredths
overlap_threshold == 10
\* 0.9, in hundredths
inference_overlap_threshold == 90
\* 0.9, in hundredths
confidence_threshold == 90
deck_size == 1
\* 0.25 seconds, in hundredths
inference_interval == 25

(***************************************************************************)
(* Input alphabets.  Boxes are [x1, y1, x2, y2].  BoxS1 and BoxS2 lie      *)
(* inside BoxBig and are disjoint from each other; BoxZero is degenerate,   *)
(* BoxInverted has x2 < x1 and y2 < y1.                                     *)
(***************************************************************************)
BoxBig == <<0, 0, 10, 10>>
BoxS1 == <<0, 0, 4, 4>>
BoxS2 == <<5, 5, 9, 9>>
BoxZero == <<2, 2, 2, 2>>
BoxInverted == <<4, 4, 0, 0>>
\* BoxMid shares 1/16 of its smaller neighbour's area with BoxS1 and 9/16
\* with BoxS2, and lies inside BoxBig
BoxMid == <<3, 3, 8, 8>>
\* BoxHalf shares half of its area with BoxS1, 3/16 with BoxMid and nothing
\* with BoxS2
BoxHalf == <<2, 0, 6, 4>>
\* BoxFar is apart from all the others
BoxFar == <<11, 0, 14, 3>>
Boxes == {BoxBig, BoxS1, BoxS2}
\* the boxes a single card is fed at
CardBoxes == Boxes \cup {BoxZero, BoxInverted}
Labels == {"7", "K"}
Confidences == {50, 95}

Max(a, b) == IF a >= b THEN a ELSE b
Min(a, b) == IF a <= b THEN a ELSE b

\* compute_overlap over the area of the first box
compute_overlap_OverFirstArea(boxA, boxB) ==
  LET x_left == Max(boxA[1], boxB[1])
      y_top == Max(boxA[2], boxB[2])
      x_right == Min(boxA[3], boxB[3])
      y_bottom == Min(boxA[4], boxB[4])
      intersection_area == (x_right - x_left) * (y_bottom - y_top)
      areaA == (boxA[3] - boxA[1]) * (boxA[4] - boxA[2])
  IN IF x_right < x_left \/ y_bottom < y_top
       THEN [num |-> 0, den |-> 1]
       ELSE IF areaA = 0
              THEN [num |-> 0, den |-> 1]
              ELSE [num |-> intersection_area, den |-> areaA]

\* compute_overlap without the test for boxes that do not meet
compute_overlap_NoDisjointTest(boxA, boxB) ==
  LET x_left == Max(boxA[1], boxB[1])
      y_top == Max(boxA[2], boxB[2])
      x_right == Min(boxA[3], boxB[3])
      y_bottom == Min(boxA[4], boxB[4])
      intersection_area == (x_right - x_left) * (y_bottom - y_top)
      areaA == (boxA[3] - boxA[1]) * (boxA[4] - boxA[2])
      areaB == (boxB[3] - boxB[1]) * (boxB[4] - boxB[2])
      min_area == Min(areaA, areaB)
  IN IF min_area = 0
       THEN [num |-> 0, den |-> 1]
       ELSE [num |-> intersection_area, den |-> min_area]

\* compute_overlap with the rectangle enclosing both boxes for the intersection
compute_overlap_Enclosing(boxA, boxB) ==
  LET x_left == Min(boxA[1], boxB[1])
      y_top == Min(boxA[2], boxB[2])
      x_right == Max(boxA[3], boxB[3])
      y_bottom == Max(boxA[4], boxB[4])
      intersection_area == (x_right - x_left) * (y_bottom - y_top)
      areaA == (boxA[3] - boxA[1]) * (boxA[4] - boxA[2])
      areaB == (boxB[3] - boxB[1]) * (boxB[4] - boxB[2])
      min_area == Min(areaA, areaB)
  IN IF x_right < x_left \/ y_bottom < y_top
       THEN [num |-> 0, den |-> 1]
       ELSE IF min_area = 0
              THEN [num |-> 0, den |-> 1]
              ELSE [num |-> intersection_area, den |-> min_area]

\* compute_overlap as intersection over union
compute_overlap_OverUnion(boxA, boxB) ==
  LET x_left == Max(boxA[1], boxB[1])
      y_top == Max(boxA[2], boxB[2])
      x_right == Min(boxA[3], boxB[3])
      y_bottom == Min(boxA[4], boxB[4])
      intersection_area == (x_right - x_left) * (y_bottom - y_top)
      areaA == (boxA[3] - boxA[1]) * (boxA[4] - boxA[2])
      areaB == (boxB[3] - boxB[1]) * (boxB[4] - boxB[2])
      union_area == areaA + areaB - intersection_area
  IN IF x_right < x_left \/ y_bottom < y_top
       THEN [num |-> 0, den |-> 1]
       ELSE IF union_area = 0
              THEN [num |-> 0, den |-> 1]
              ELSE [num |-> intersection_area, den |-> union_area]

(***************************************************************************)
(* detection_utils.compute_overlap: intersection area over the area of the *)
(* smaller box, as the exact fraction num/den.                             *)
(***************************************************************************)
compute_overlap(boxA, boxB) ==
  LET x_left == Max(boxA[1], boxB[1])
      y_top == Max(boxA[2], boxB[2])
      x_right == Min(boxA[3], boxB[3])
      y_bottom == Min(boxA[4], boxB[4])
      intersection_area == (x_right - x_left) * (y_bottom - y_top)
      areaA == (boxA[3] - boxA[1]) * (boxA[4] - boxA[2])
      areaB == (boxB[3] - boxB[1]) * (boxB[4] - boxB[2])
      min_area == Min(areaA, areaB)
  IN IF x_right < x_left \/ y_bottom < y_top
       THEN [num |-> 0, den |-> 1]
       ELSE IF min_area = 0
              THEN [num |-> 0, den |-> 1]
              ELSE [num |-> intersection_area, den |-> min_area]

\* ratio >= threshold, the threshold in hundredths
RatioGE(r, thr) ==
  IF r.den > 0 THEN r.num * 100 >= thr * r.den
               ELSE r.num * 100 <= thr * r.den

\* compute_overlap(box, list(prev_box)) >= self.overlap_threshold
Overlaps(box, prev_box) ==
  RatioGE(compute_overlap(box, prev_box), inference_overlap_threshold)

(***************************************************************************)
(* evaluation/deck.py                                                      *)
(***************************************************************************)
CARD_LABELS == {"A", "2", "3", "4", "5", "6", "7", "8", "9", "10", "J", "Q", "K"}

\* HI_LO_VALUES with the signs exchanged
HI_LO_VALUES_Inverted(label) ==
  IF label \in {"2", "3", "4", "5", "6"} THEN 0 - 1
  ELSE IF label \in {"10", "J", "Q", "K", "A"} THEN 1
  ELSE 0

\* HI_LO_VALUES with the Ace left out of the count
HI_LO_VALUES_AceNeutral(label) ==
  IF label \in {"2", "3", "4", "5", "6"} THEN 1
  ELSE IF label \in {"10", "J", "Q", "K"} THEN 0 - 1
  ELSE 0

HI_LO_VALUES(label) ==
  IF label \in {"2", "3", "4", "5", "6"} THEN 1
  ELSE IF label \in {"10", "J", "Q", "K", "A"} THEN 0 - 1
  ELSE 0

\* CardDeck.__init__
NewDeck(size) ==
  [cards |-> [l \in CARD_LABELS |-> 4 * size], running_count |-> 0]

\* remove_card that leaves the count of the card as it is
remove_card_KeepingCount(deck, card_label) ==
  [cards |-> deck.cards,
   running_count |-> deck.running_count + HI_LO_VALUES(card_label),
   ok |-> TRUE]

\* remove_card without the test that a card of the rank is left
remove_card_Unchecked(deck, card_label) ==
  IF card_label \in DOMAIN deck.cards
    THEN [cards |-> [deck.cards EXCEPT ![card_label] = @ - 1],
          running_count |-> deck.running_count + HI_LO_VALUES(card_label),
          ok |-> TRUE]
    ELSE [cards |-> deck.cards, running_count |-> deck.running_count,
          ok |-> FALSE]

\* remove_card that counts a failed removal in running_count
remove_card_CountingFailures(deck, card_label) ==
  IF card_label \in DOMAIN deck.cards /\ deck.cards[card_label] > 0
    THEN [cards |-> [deck.cards EXCEPT ![card_label] = @ - 1],
          running_count |-> deck.running_count + HI_LO_VALUES(card_label),
          ok |-> TRUE]
    ELSE [cards |-> deck.cards,
          running_count |-> deck.running_count + HI_LO_VALUES(card_label),
          ok |-> FALSE]

\* CardDeck.remove_card: the deck after the call and the value returned
remove_card(deck, card_label) ==
  IF card_label \in DOMAIN deck.cards /\ deck.cards[card_label] > 0
    THEN [cards |-> [deck.cards EXCEPT ![card_label] = @ - 1],
          running_count |-> deck.running_count + HI_LO_VALUES(card_label),
          ok |-> TRUE]
    ELSE [cards |-> deck.cards, running_count |-> deck.running_count,
          ok |-> FALSE]

\* on_card_locked that calls remove_card twice
RECURSIVE on_card_locked_Twice(_, _)
on_card_locked_Twice(deck, locks) ==
  IF locks = <<>> THEN [cards |-> deck.cards, running_count |-> deck.running_count]
  ELSE on_card_locked_Twice(
         remove_card(remove_card(deck, Head(locks).label), Head(locks).label),
         Tail(locks))

\* on_card_locked called once per element of locks, in order
RECURSIVE on_card_locked(_, _)
on_card_locked(deck, locks) ==
  IF locks = <<>> THEN [cards |-> deck.cards, running_count |-> deck.running_count]
  ELSE on_card_locked(remove_card(deck, Head(locks).label), Tail(locks))

\* how many of the calls of on_card_locked, in order, had remove_card return True
RECURSIVE removals(_, _)
removals(deck, locks) ==
  IF locks = <<>> THEN 0
  ELSE (IF remove_card(deck, Head(locks).label).ok THEN 1 ELSE 0)
         + removals(remove_card(deck, Head(locks).label), Tail(locks))

\* sum(self.cards.values()) over the ranks in todo
RECURSIVE SumCards(_, _)
SumCards(deck_cards, todo) ==
  IF todo = {} THEN 0
  ELSE LET l == CHOOSE x \in todo : TRUE
       IN deck_cards[l] + SumCards(deck_cards, todo \ {l})

\* get_true_count that divides by the cards remaining
get_true_count_PerCard(deck) ==
  LET remaining_cards == SumCards(deck.cards, DOMAIN deck.cards)
  IN IF remaining_cards > 0
       THEN [num |-> deck.running_count, den |-> remaining_cards]
       ELSE [num |-> deck.running_count, den |-> 1]

\* get_true_count that never divides by less than one deck
get_true_count_Floored(deck) ==
  LET remaining_cards == SumCards(deck.cards, DOMAIN deck.cards)
  IN IF remaining_cards >= 52
       THEN [num |-> deck.running_count * 52, den |-> remaining_cards]
       ELSE [num |-> deck.running_count, den |-> 1]

\* CardDeck.get_true_count, as the exact fraction num/den (den > 0)
get_true_count(deck) ==
  LET remaining_cards == SumCards(deck.cards, DOMAIN deck.cards)
      decks_remaining == [num |-> remaining_cards, den |-> 52]
  IN IF decks_remaining.num > 0
       THEN [num |-> deck.running_count * decks_remaining.den,
             den |-> decks_remaining.num]
       ELSE [num |-> deck.running_count, den |-> 1]

(***************************************************************************)
(* psrc/detection/card_tracker.py                                          *)
(*                                                                         *)
(* tracked_cards is a dict in insertion order from a box to an info dict.  *)
(* Info dicts are objects: two keys may hold the same one.  The model      *)
(* keeps the objects in a heap (reference -> info) and the dict as a       *)
(* sequence of [box, ref].                                                 *)
(***************************************************************************)
\* position of key k in dict d, 0 when absent
DictIndex(d, k) ==
  IF \E i \in 1..Len(d) : d[i].box = k
    THEN CHOOSE i \in 1..Len(d) : d[i].box = k
    ELSE 0

\* d[k] = v: an existing key keeps its position
DictSet(d, k, v) ==
  IF DictIndex(d, k) # 0
    THEN [d EXCEPT ![DictIndex(d, k)].ref = v]
    ELSE Append(d, [box |-> k, ref |-> v])

\* the last tracked entry, in insertion order, that box overlaps; 0 if none
FirstMatch_Latest(tc, box) ==
  IF \E i \in 1..Len(tc) : Overlaps(box, tc[i].box)
    THEN CHOOSE i \in 1..Len(tc) :
           /\ Overlaps(box, tc[i].box)
           /\ \A j \in (i + 1)..Len(tc) : ~Overlaps(box, tc[j].box)
    ELSE 0

\* the first tracked entry, in insertion order, that box overlaps; 0 if none
FirstMatch(tc, box) ==
  IF \E i \in 1..Len(tc) : Overlaps(box, tc[i].box)
    THEN CHOOSE i \in 1..Len(tc) :
           /\ Overlaps(box, tc[i].box)
           /\ \A j \in 1..(i - 1) : ~Overlaps(box, tc[j].box)
    ELSE 0

\* a reference no live object has
FreshRef(heap) ==
  CHOOSE r \in 1..(Cardinality(DOMAIN heap) + 1) :
    /\ r \notin DOMAIN heap
    /\ \A q \in 1..(r - 1) : q \in DOMAIN heap

\* ShouldLock without the test of info["locked"]
ShouldLock_IgnoringLocked(info, cf) == info.frame_count >= cf

\* the lock condition of a matched card
ShouldLock(info, cf) == info.frame_count >= cf /\ ~info.locked

\* TrackBox starting every new card at frame_count 1
TrackBox_CountingFromOne(st, tc, box, label, confidence, cf) ==
  LET i == FirstMatch(tc, box) IN
  IF i # 0
    THEN LET r == tc[i].ref
             counted == [st.heap[r] EXCEPT !.frame_count = @ + 1]
             lock == ShouldLock(counted, cf)
         IN [heap |-> [st.heap EXCEPT ![r] = [counted EXCEPT !.locked = @ \/ lock]],
             new |-> DictSet(st.new, box, r),
             locks |-> IF lock THEN Append(st.locks, [ref |-> r, label |-> counted.label])
                               ELSE st.locks,
             hits |-> Append(st.hits, [ref |-> r, locked |-> st.heap[r].locked]),
             born |-> st.born]
    ELSE LET r == FreshRef(st.heap)
         IN [heap |-> (r :> [label |-> label, confidence |-> confidence,
                             frame_count |-> 1, locked |-> FALSE])
                      @@ st.heap,
             new |-> DictSet(st.new, box, r),
             locks |-> st.locks,
             hits |-> st.hits,
             born |-> st.born \cup {r}]

\* lines 65-94 for one detected box.  st: heap, new (new_tracked), locks
\* (the callback's calls, in order), hits (for each matching detection, in
\* order, the reference matched and whether it was locked before) and born
\* (the references created by this update).
TrackBox(st, tc, box, label, confidence, cf) ==
  LET i == FirstMatch(tc, box) IN
  IF i # 0
    THEN LET r == tc[i].ref
             counted == [st.heap[r] EXCEPT !.frame_count = @ + 1]
             lock == ShouldLock(counted, cf)
         IN [heap |-> [st.heap EXCEPT ![r] = [counted EXCEPT !.locked = @ \/ lock]],
             new |-> DictSet(st.new, box, r),
             locks |-> IF lock THEN Append(st.locks, [ref |-> r, label |-> counted.label])
                               ELSE st.locks,
             hits |-> Append(st.hits, [ref |-> r, locked |-> st.heap[r].locked]),
             born |-> st.born]
    ELSE LET r == FreshRef(st.heap)
             initial_count == IF confidence >= confidence_threshold THEN 1 ELSE 0
         IN [heap |-> (r :> [label |-> label, confidence |-> confidence,
                             frame_count |-> initial_count, locked |-> FALSE])
                      @@ st.heap,
             new |-> DictSet(st.new, box, r),
             locks |-> st.locks,
             hits |-> st.hits,
             born |-> st.born \cup {r}]

RECURSIVE TrackBoxes(_, _, _, _, _, _, _)
TrackBoxes(st, tc, boxes, labels, confidences, cf, k) ==
  IF k > Len(boxes) THEN st
  ELSE TrackBoxes(TrackBox(st, tc, boxes[k], labels[k], confidences[k], cf),
                  tc, boxes, labels, confidences, cf, k + 1)

\* AgeEntry that keeps an undetected card without counting the frame
AgeEntry_NotCounting(st, entry, df) ==
  IF DictIndex(st.new, entry.box) # 0 THEN st
  ELSE [st EXCEPT !.new = IF st.heap[entry.ref].frame_count < df
                            THEN Append(@, entry) ELSE @]

\* AgeEntry that starts the count of an undetected card again
AgeEntry_Resetting(st, entry, df) ==
  IF DictIndex(st.new, entry.box) # 0 THEN st
  ELSE LET r == entry.ref
           fc == st.heap[r].frame_count + 1
       IN [st EXCEPT !.heap[r].frame_count = 0,
                     !.new = IF fc < df THEN Append(@, entry) ELSE @]

\* lines 97-102 for one previously tracked box
AgeEntry(st, entry, df) ==
  IF DictIndex(st.new, entry.box) # 0 THEN st
  ELSE LET r == entry.ref
           fc == st.heap[r].frame_count + 1
       IN [st EXCEPT !.heap[r].frame_count = fc,
                     !.new = IF fc < df THEN Append(@, entry) ELSE @]

RECURSIVE AgeEntries(_, _, _, _)
AgeEntries(st, tc, df, i) ==
  IF i > Len(tc) THEN st
  ELSE AgeEntries(AgeEntry(st, tc[i], df), tc, df, i + 1)

\* boxes.index(box)
ListIndex(boxes, box) ==
  CHOOSE i \in 1..Len(boxes) :
    boxes[i] = box /\ \A j \in 1..(i - 1) : boxes[j] # box

\* lines 107-117 for one box
DisplayedLabel(tc, heap, boxes, labels, box, cf) ==
  LET i == FirstMatch(tc, box) IN
  IF i # 0
    THEN IF heap[tc[i].ref].frame_count >= cf
           THEN heap[tc[i].ref].label
           ELSE labels[ListIndex(boxes, box)]
    ELSE labels[ListIndex(boxes, box)]

Refs(tc) == {tc[i].ref : i \in 1..Len(tc)}

\* CardTracker.update: the tracker after the call, the labels returned and
\* the callback's calls
update(tc, heap, boxes, labels, confidences, cf, df) ==
  LET st0 == [heap |-> heap, new |-> <<>>, locks |-> <<>>, hits |-> <<>>, born |-> {}]
      st1 == TrackBoxes(st0, tc, boxes, labels, confidences, cf, 1)
      st2 == AgeEntries(st1, tc, df, 1)
  IN [tracked_cards |-> st2.new,
      heap |-> [r \in Refs(st2.new) |-> st2.heap[r]],
      displayed_labels |->
        [k \in 1..Len(boxes) |->
           DisplayedLabel(st2.new, st2.heap, boxes, labels, boxes[k], cf)],
      locks |-> st2.locks,
      hits |-> st2.hits,
      born |-> st2.born]

\* CardTracker.update when labels or confidences is shorter than boxes: the
\* detections before the first missing label or confidence are tracked
\* (lines 65-94), then labels[i] (line 66) or confidences[i] (line 67) raises
\* IndexError; self.tracked_cards is not assigned and nothing is returned
update_raising(tc, heap, boxes, labels, confidences, cf) ==
  LET m == Min(Len(labels), Len(confidences))
      st0 == [heap |-> heap, new |-> <<>>, locks |-> <<>>, hits |-> <<>>, born |-> {}]
      st1 == TrackBoxes(st0, tc, SubSeq(boxes, 1, m), labels, confidences, cf, 1)
  IN [tracked_cards |-> tc,
      heap |-> [r \in DOMAIN heap |-> st1.heap[r]],
      locks |-> st1.locks]

(***************************************************************************)
(* deck.py: the deck of the deck-holding tracker                           *)
(***************************************************************************)
\* CardDeck.__init__
PyNewDeck == [l \in CARD_LABELS |-> 4]

\* CardDeck.remove_card
py_remove_card(deck_cards, card_label) ==
  IF card_label \in DOMAIN deck_cards /\ deck_cards[card_label] > 0
    THEN [deck_cards EXCEPT ![card_label] = @ - 1]
    ELSE deck_cards

RECURSIVE py_remove_cards(_, _)
py_remove_cards(deck_cards, removes) ==
  IF removes = <<>> THEN deck_cards
  ELSE py_remove_cards(py_remove_card(deck_cards, Head(removes).label), Tail(removes))

(***************************************************************************)
(* python/detection/card_tracker.py                                        *)
(*                                                                         *)
(* tracked_cards is a dict in insertion order from a box to the tuple      *)
(* (stable_label, stable_confidence, frame_count, locked_flag).  The model *)
(* keeps it as a sequence of records, each with the identity (id) of the   *)
(* tuple's card: given when an unmatched detection creates the entry and   *)
(* carried by every entry made from it.                                    *)
(***************************************************************************)
\* d[e.box] = e: an existing key keeps its position
PyDictSet(d, e) ==
  IF DictIndex(d, e.box) # 0
    THEN [d EXCEPT ![DictIndex(d, e.box)] = e]
    ELSE Append(d, e)

PyIds(tc) == {tc[i].id : i \in 1..Len(tc)}

\* an identity no entry has
PyFreshId(used) ==
  CHOOSE r \in 1..(Cardinality(used) + 1) :
    /\ r \notin used
    /\ \A q \in 1..(r - 1) : q \in used

\* PyShouldRemove with a strict comparison
PyShouldRemove_Strict(frame_count, locked_flag, cf) ==
  frame_count > cf /\ ~locked_flag

\* line 61: the deck is charged for a card that has just been confirmed
PyShouldRemove(frame_count, locked_flag, cf) ==
  frame_count >= cf /\ ~locked_flag

\* PyTrackBox storing the detection's label whatever the frame_count
PyTrackBox_RawLabel(st, tc, box, label, confidence, cf) ==
  LET i == FirstMatch(tc, box) IN
  IF i # 0
    THEN LET prev == tc[i]
             counting == prev.frame_count < cf
             frame_count == IF counting THEN prev.frame_count + 1 ELSE prev.frame_count
             remove == counting /\ PyShouldRemove(frame_count, prev.locked_flag, cf)
         IN [new |-> PyDictSet(st.new,
                       [box |-> box,
                        label |-> label,
                        confidence |-> confidence,
                        frame_count |-> frame_count,
                        locked_flag |-> prev.locked_flag \/ remove,
                        id |-> prev.id]),
             removes |-> IF remove THEN Append(st.removes, [id |-> prev.id, label |-> prev.label])
                                   ELSE st.removes]
    ELSE [new |-> PyDictSet(st.new,
                    [box |-> box, label |-> label, confidence |-> confidence,
                     frame_count |-> IF confidence >= confidence_threshold THEN 1 ELSE 0,
                     locked_flag |-> FALSE,
                     id |-> PyFreshId(PyIds(tc) \cup PyIds(st.new))]),
          removes |-> st.removes]

\* lines 49-74 for one detected box.  st: new (new_tracked), removes (the
\* calls of deck.remove_card, in order).
PyTrackBox(st, tc, box, label, confidence, cf) ==
  LET i == FirstMatch(tc, box) IN
  IF i # 0
    THEN LET prev == tc[i]
             counting == prev.frame_count < cf
             frame_count == IF counting THEN prev.frame_count + 1 ELSE prev.frame_count
             remove == counting /\ PyShouldRemove(frame_count, prev.locked_flag, cf)
         IN [new |-> PyDictSet(st.new,
                       [box |-> box,
                        label |-> IF frame_count >= cf THEN prev.label ELSE label,
                        confidence |-> confidence,
                        frame_count |-> frame_count,
                        locked_flag |-> prev.locked_flag \/ remove,
                        id |-> prev.id]),
             removes |-> IF remove THEN Append(st.removes, [id |-> prev.id, label |-> prev.label])
                                   ELSE st.removes]
    ELSE [new |-> PyDictSet(st.new,
                    [box |-> box, label |-> label, confidence |-> confidence,
                     frame_count |-> IF confidence >= confidence_threshold THEN 1 ELSE 0,
                     locked_flag |-> FALSE,
                     id |-> PyFreshId(PyIds(tc) \cup PyIds(st.new))]),
          removes |-> st.removes]

RECURSIVE PyTrackBoxes(_, _, _, _, _, _, _)
PyTrackBoxes(st, tc, boxes, labels, confidences, cf, k) ==
  IF k > Len(boxes) THEN st
  ELSE PyTrackBoxes(PyTrackBox(st, tc, boxes[k], labels[k], confidences[k], cf),
                    tc, boxes, labels, confidences, cf, k + 1)

\* lines 77-82 for one previously tracked box
PyAgeEntry(new, prev, df) ==
  IF DictIndex(new, prev.box) = 0 /\ prev.frame_count < df
    THEN Append(new, [prev EXCEPT !.frame_count = @ + 1])
    ELSE new

RECURSIVE PyAgeEntries(_, _, _, _)
PyAgeEntries(new, tc, df, i) ==
  IF i > Len(tc) THEN new
  ELSE PyAgeEntries(PyAgeEntry(new, tc[i], df), tc, df, i + 1)

\* lines 87-100 for one box
PyDisplayedLabel(tc, boxes, labels, box, cf) ==
  LET i == FirstMatch(tc, box) IN
  IF i # 0
    THEN IF tc[i].frame_count >= cf
           THEN tc[i].label
           ELSE labels[ListIndex(boxes, box)]
    ELSE labels[ListIndex(boxes, box)]

\* CardTracker.update: the tracker after the call, the labels returned and
\* the calls of deck.remove_card
py_update(tc, boxes, labels, confidences, cf, df) ==
  LET st1 == PyTrackBoxes([new |-> <<>>, removes |-> <<>>], tc, boxes, labels,
                          confidences, cf, 1)
      new == PyAgeEntries(st1.new, tc, df, 1)
  IN [tracked_cards |-> new,
      displayed_labels |->
        [k \in 1..Len(boxes) |-> PyDisplayedLabel(new, boxes, labels, boxes[k], cf)],
      removes |-> st1.removes]

(***************************************************************************)
(* calculate_hand_score of evaluation/hand_utils.py and game/scorer.py.    *)
(***************************************************************************)
\* card.isdigit()
isdigit(card) == card \in {"0", "1", "2", "3", "4", "5", "6", "7", "8", "9", "10"}

\* int(card) for the labels of digits
int(card) ==
  CASE card = "0" -> 0 [] card = "1" -> 1 [] card = "2" -> 2 [] card = "3" -> 3
    [] card = "4" -> 4 [] card = "5" -> 5 [] card = "6" -> 6 [] card = "7" -> 7
    [] card = "8" -> 8 [] card = "9" -> 9 [] card = "10" -> 10

\* lines 26-31: <<base_score, ace_count>> after the cards from k on
RECURSIVE BaseScore(_, _, _, _)
BaseScore(cards, k, base_score, ace_count) ==
  IF k > Len(cards) THEN <<base_score, ace_count>>
  ELSE IF cards[k] = "A"
    THEN BaseScore(cards, k + 1, base_score + 1, ace_count + 1)
    ELSE BaseScore(cards, k + 1,
                   base_score + (IF isdigit(cards[k]) THEN int(cards[k]) ELSE 10),
                   ace_count)

\* the adjustment giving every Ace its ten
AdjustAces_EveryAce(base_score, ace_count) == base_score + 10 * ace_count

\* lines 34-36: while ace_count > 0 and base_score + 10 <= 21
RECURSIVE AdjustAces(_, _)
AdjustAces(base_score, ace_count) ==
  IF ace_count > 0 /\ base_score + 10 <= 21
    THEN AdjustAces(base_score + 10, ace_count - 1)
    ELSE base_score

\* hand_utils.calculate_hand_score(cards)
calculate_hand_score(cards) ==
  LET b == BaseScore(cards, 1, 0, 0) IN AdjustAces(b[1], b[2])

\* CARD_VALUES.get(card, 0)
get_card_value(card) ==
  CASE card = "A" -> 1 [] card = "2" -> 2 [] card = "3" -> 3 [] card = "4" -> 4
    [] card = "5" -> 5 [] card = "6" -> 6 [] card = "7" -> 7 [] card = "8" -> 8
    [] card = "9" -> 9 [] card = "10" -> 10 [] card = "J" -> 10
    [] card = "Q" -> 10 [] card = "K" -> 10 [] OTHER -> 0

\* game/scorer.py lines 52-56: <<total_value, num_aces>> after the cards from k on
RECURSIVE TotalValue(_, _, _, _)
TotalValue(cards, k, total_value, num_aces) ==
  IF k > Len(cards) THEN <<total_value, num_aces>>
  ELSE TotalValue(cards, k + 1, total_value + get_card_value(cards[k]),
                  IF cards[k] = "A" THEN num_aces + 1 ELSE num_aces)

\* game/scorer.calculate_hand_score(cards); its loop of lines 59-61 is that of
\* hand_utils
game_calculate_hand_score(cards) ==
  LET t == TotalValue(cards, 1, 0, 0) IN AdjustAces(t[1], t[2])

(***************************************************************************)
(* inference.apply_nms.  Indices are those of the Python lists, 0..n-1.    *)
(***************************************************************************)
\* sorted() putting equal confidences in descending order of their index
sorted_indices_ReversedTies(confidences) ==
  LET n == Len(confidences)
      before(j, i) == \/ confidences[j + 1] > confidences[i + 1]
                      \/ confidences[j + 1] = confidences[i + 1] /\ j > i
      place(i) == Cardinality({j \in 0..(n - 1) : before(j, i)})
  IN [k \in 1..n |-> CHOOSE i \in 0..(n - 1) : place(i) = k - 1]

\* sorted(range(len(confidences_np)), key=lambda i: confidences_np[i],
\* reverse=True): the sort is stable, so index j comes before index i when
\* its confidence is higher, or the same with j < i
sorted_indices(confidences) ==
  LET n == Len(confidences)
      before(j, i) == \/ confidences[j + 1] > confidences[i + 1]
                      \/ confidences[j + 1] = confidences[i + 1] /\ j < i
      place(i) == Cardinality({j \in 0..(n - 1) : before(j, i)})
  IN [k \in 1..n |-> CHOOSE i \in 0..(n - 1) : place(i) = k - 1]

\* the indices the while loop would keep, returned in the order of the input
RECURSIVE keep_InInputOrder(_, _, _)
keep_InInputOrder(boxes, indices, nms_threshold) ==
  IF indices = <<>>
    THEN <<>>
    ELSE LET i == Head(indices)
             rest == keep_InInputOrder(
                       boxes,
                       SelectSeq(Tail(indices),
                                 LAMBDA j : ~RatioGE(compute_overlap(boxes[i + 1],
                                                                     boxes[j + 1]),
                                                     nms_threshold)),
                       nms_threshold)
         IN SelectSeq(rest, LAMBDA j : j < i) \o <<i>>
              \o SelectSeq(rest, LAMBDA j : j > i)

\* a loop that drops nothing
keep_Everything(boxes, indices, nms_threshold) == indices

\* a loop that keeps the first index alone
keep_FirstOnly(boxes, indices, nms_threshold) ==
  IF indices = <<>> THEN <<>> ELSE <<Head(indices)>>

\* the while loop of apply_nms: the first index is kept, and the indices
\* whose box overlaps its box at or above the threshold are dropped
RECURSIVE keep(_, _, _)
keep(boxes, indices, nms_threshold) ==
  IF indices = <<>>
    THEN <<>>
    ELSE LET i == Head(indices)
         IN <<i>> \o keep(boxes,
                          SelectSeq(Tail(indices),
                                    LAMBDA j : ~RatioGE(compute_overlap(boxes[i + 1],
                                                                        boxes[j + 1]),
                                                        nms_threshold)),
                          nms_threshold)

\* apply_nms(boxes, labels, confidences, overlap_threshold)
apply_nms(boxes, labels, confidences, nms_threshold) ==
  IF boxes = <<>>
    THEN [boxes |-> <<>>, labels |-> <<>>, confidences |-> <<>>]
    ELSE LET k == keep(boxes, sorted_indices(confidences), nms_threshold)
         IN [boxes |-> [x \in 1..Len(k) |-> boxes[k[x] + 1]],
             labels |-> [x \in 1..Len(k) |-> labels[k[x] + 1]],
             confidences |-> [x \in 1..Len(k) |-> confidences[k[x] + 1]]]

(***************************************************************************)
(* group_cards of detection_utils and of hand_detector.  Both build the    *)
(* graph and search it with the same statements; they differ in what they  *)
(* return.  Indices are those of the Python lists, 0..n-1.                 *)
(***************************************************************************)
\* the graph with graph[i].append(j) only
graph_OneWay(boxes, threshold) ==
  LET n == Len(boxes)
  IN [i \in 0..(n - 1) |->
        SelectSeq([k \in 1..n |-> k - 1],
                  LAMBDA j : /\ j > i
                             /\ RatioGE(compute_overlap(boxes[i + 1], boxes[j + 1]),
                                        threshold))]

\* the graph with an edge only for an overlap above the threshold
graph_Strict(boxes, threshold) ==
  LET n == Len(boxes)
  IN [i \in 0..(n - 1) |->
        SelectSeq([k \in 1..n |-> k - 1],
                  LAMBDA j : /\ j # i
                             /\ LET r == compute_overlap(boxes[Min(i, j) + 1],
                                                         boxes[Max(i, j) + 1])
                                IN r.num * 100 > threshold * r.den)]

\* the adjacency lists: for i < j with compute_overlap(boxes[i], boxes[j]) >=
\* threshold, j is appended to graph[i] and i to graph[j]; the loops run in
\* ascending order, so every list is ascending
graph(boxes, threshold) ==
  LET n == Len(boxes)
  IN [i \in 0..(n - 1) |->
        SelectSeq([k \in 1..n |-> k - 1],
                  LAMBDA j : /\ j # i
                             /\ RatioGE(compute_overlap(boxes[Min(i, j) + 1],
                                                        boxes[Max(i, j) + 1]),
                                        threshold))]

\* while stack: node = stack.pop(); if not visited[node]: ...
RECURSIVE Traverse(_, _, _, _)
Traverse(g, stack, visited, group) ==
  IF stack = <<>>
    THEN [visited |-> visited, group |-> group]
    ELSE LET node == stack[Len(stack)]
             rest == SubSeq(stack, 1, Len(stack) - 1)
         IN IF node \in visited
              THEN Traverse(g, rest, visited, group)
              ELSE Traverse(g, rest \o g[node], visited \cup {node},
                            Append(group, node))

\* the search started from every index, with nothing visited
RECURSIVE Components_ForgettingVisited(_, _, _, _, _)
Components_ForgettingVisited(g, n, i, visited, grps) ==
  IF i >= n
    THEN grps
    ELSE Components_ForgettingVisited(
           g, n, i + 1, visited,
           Append(grps, Traverse(g, <<i>>, {}, <<>>).group))

\* the search started from the last index first
RECURSIVE Components_FromLast(_, _, _, _, _)
Components_FromLast(g, n, i, visited, grps) ==
  IF i >= n
    THEN grps
    ELSE IF (n - 1 - i) \in visited
      THEN Components_FromLast(g, n, i + 1, visited, grps)
      ELSE LET t == Traverse(g, <<n - 1 - i>>, visited, <<>>)
           IN Components_FromLast(g, n, i + 1, t.visited, Append(grps, t.group))

\* for i in range(n): if not visited[i]: ...; groups.append(group)
RECURSIVE Components(_, _, _, _, _)
Components(g, n, i, visited, grps) ==
  IF i >= n
    THEN grps
    ELSE IF i \in visited
           THEN Components(g, n, i + 1, visited, grps)
           ELSE LET t == Traverse(g, <<i>>, visited, <<>>)
                IN Components(g, n, i + 1, t.visited, Append(grps, t.group))

\* hand_detector.group_cards with the strict graph
hand_detector_group_cards_Strict(boxes, threshold) ==
  Components(graph_Strict(boxes, threshold), Len(boxes), 0, {}, <<>>)

\* hand_detector.group_cards(boxes, threshold): the list groups
hand_detector_group_cards(boxes, threshold) ==
  Components(graph(boxes, threshold), Len(boxes), 0, {}, <<>>)

\* detection_utils.group_cards returning an empty dealer_hand as a list
group_cards_EmptyDealerList(boxes, threshold) ==
  LET grps == Components(graph(boxes, threshold), Len(boxes), 0, {}, <<>>)
      singles == SelectSeq(grps, LAMBDA group : Len(group) = 1)
  IN [player_hands |-> SelectSeq(grps, LAMBDA group : Len(group) # 1),
      dealer_hand |-> <<[x \in 1..Len(singles) |-> singles[x][1]]>>]

\* detection_utils.group_cards(boxes, overlap_threshold): the groups of one
\* index are extended into dealer_hand, the others appended to
\* player_hands.  dealer_hand is <<>> for None and <<list>> for a list.
group_cards(boxes, threshold) ==
  LET grps == Components(graph(boxes, threshold), Len(boxes), 0, {}, <<>>)
      singles == SelectSeq(grps, LAMBDA group : Len(group) = 1)
      dealer_hand == [x \in 1..Len(singles) |-> singles[x][1]]
  IN [player_hands |-> SelectSeq(grps, LAMBDA group : Len(group) # 1),
      dealer_hand |-> IF dealer_hand = <<>> THEN <<>> ELSE <<dealer_hand>>]

(***************************************************************************)
(* State.                                                                  *)
(***************************************************************************)
VARIABLES
  confirmation_frames,  \* CardTracker.confirmation_frames
  disappear_frames,     \* CardTracker.disappear_frames
  tracked_cards,        \* CardTracker.tracked_cards: sequence of [box, ref]
  infos,                \* the info dicts tracked_cards refers to, by reference
  cards,                \* CardDeck.cards
  running_count,        \* CardDeck.running_count
  update_calls,         \* calls of tracker.update made by the last process_frame
  ticks,                \* frames processed so far
  fed,                  \* detections handed to the tracker so far
  lock_calls,           \* calls of on_lock_callback so far
  life,                 \* history of each live info dict: calls of the callback
                        \* for it (fired), ticks in which it was detected
                        \* (detected), consecutive updates without a match
                        \* (missed), detections that matched it when it was
                        \* already locked (rematched)
  py_tracked,           \* tracked_cards of the deck-holding CardTracker
  py_cards,             \* cards of its deck
  py_remove_calls,      \* calls of deck.remove_card so far
  py_life,              \* calls of deck.remove_card for each tracked identity
  card,                 \* the detection a single-card run feeds
  trail,                \* a single-card run: what was observed after each tick
  removed_ok,           \* calls of on_card_locked whose remove_card returned True
  size,                 \* CardDeck.size
  returned,             \* <<value returned by the last call of remove_card>>
  boxA,                 \* the rectangles handed to compute_overlap
  boxB,
  overlap,              \* <<compute_overlap(boxA, boxB), compute_overlap(boxB, boxA)>>
  detections,           \* the boxes, labels, confidences and overlap_threshold
                        \* handed to apply_nms
  kept,                 \* <<the list keep of that call of apply_nms>>
  filtered,             \* what apply_nms returned, then what it returned for
                        \* its own output
  hand_boxes,           \* the boxes handed to group_cards
  hand_threshold,       \* the threshold handed to group_cards, in hundredths
  groups,               \* <<what hand_detector.group_cards returned>>
  hands,                \* <<what detection_utils.group_cards returned>>
  frame,                \* the boxes, labels and confidences the last tick
                        \* handed to both trackers
  last_update,          \* the analyzer's last_update, in hundredths of a second
  annotated_frame,      \* the analyzer's annotated_frame: <<>> for None, else
                        \* <<[frame, annotated]>>, the number of the frame
                        \* read and whether process_frame annotated it
  current_time,         \* the last reading of time.time(), in hundredths
  hand,                 \* the card labels handed to calculate_hand_score
  score,                \* <<what hand_utils.calculate_hand_score returned>>
  game_score            \* <<what game/scorer.calculate_hand_score returned>>

vars == <<confirmation_frames, disappear_frames, tracked_cards, infos, cards,
          running_count, update_calls, ticks, fed, lock_calls, life,
          py_tracked, py_cards, py_remove_calls, py_life, card, trail,
          removed_ok, size, returned, boxA, boxB, overlap, detections, kept,
          filtered, hand_boxes, hand_threshold, groups, hands, frame,
          last_update, annotated_frame, current_time, hand, score,
          game_score>>

psrc_vars == <<tracked_cards, infos, cards, running_count, update_calls,
               lock_calls, life, removed_ok>>
py_vars == <<py_tracked, py_cards, py_remove_calls, py_life>>
run_vars == <<last_update, annotated_frame, current_time>>
score_vars == <<hand, score, game_score>>
card_vars == <<card, trail, frame, last_update, annotated_frame, current_time,
               hand, score, game_score>>
deck_vars == <<size, returned>>
overlap_vars == <<boxA, boxB, overlap>>
nms_vars == <<detections, kept, filtered>>
group_vars == <<hand_boxes, hand_threshold, groups, hands>>

\* no call of apply_nms has been made
NoSuppression ==
  /\ detections = [boxes |-> <<>>, labels |-> <<>>, confidences |-> <<>>,
                   overlap_threshold |-> inference_overlap_threshold]
  /\ kept = <<>>
  /\ filtered = <<>>

\* no call of group_cards has been made
NoGrouping ==
  /\ hand_boxes = <<>>
  /\ hand_threshold = overlap_threshold
  /\ groups = <<>>
  /\ hands = <<>>

NoDetections == NoSuppression /\ NoGrouping

NoCard == [box |-> <<0, 0, 0, 0>>, label |-> "?", confidence |-> 0]

\* no detections
NoFrame == [boxes |-> <<>>, labels |-> <<>>, confidences |-> <<>>]

\* the analyzer before its main loop: last_update 0.0, annotated_frame None
NotRunning ==
  /\ last_update = 0
  /\ annotated_frame = <<>>
  /\ current_time = 0

\* no call of calculate_hand_score has been made
NotScoring ==
  /\ hand = <<>>
  /\ score = <<>>
  /\ game_score = <<>>

\* the history of the info dicts after an update with result u
LifeAfter(u) ==
  [r \in DOMAIN u.heap |->
     IF r \in u.born
       THEN [fired |-> 0, detected |-> u.heap[r].frame_count, missed |-> 0,
             rematched |-> 0]
     ELSE IF \E i \in 1..Len(u.hits) : u.hits[i].ref = r
       THEN [fired |-> life[r].fired
                         + Cardinality({i \in 1..Len(u.locks) : u.locks[i].ref = r}),
             detected |-> life[r].detected + 1,
             missed |-> 0,
             rematched |-> life[r].rematched
                             + Cardinality({i \in 1..Len(u.hits) :
                                              u.hits[i].ref = r /\ u.hits[i].locked})]
     ELSE [life[r] EXCEPT !.missed = @ + 1]]

\* the calls of deck.remove_card for each identity after an update with result u
PyLifeAfter(u) ==
  [r \in PyIds(u.tracked_cards) |->
     (IF r \in DOMAIN py_life THEN py_life[r] ELSE 0)
       + Cardinality({i \in 1..Len(u.removes) : u.removes[i].id = r})]

\* CardTracker.__init__, CardDeck.__init__ and the analyzer's __init__
StartInit ==
  /\ tracked_cards = <<>>
  /\ infos = <<>>
  /\ cards = NewDeck(deck_size).cards
  /\ running_count = NewDeck(deck_size).running_count
  /\ update_calls = 0
  /\ ticks = 0
  /\ fed = 0
  /\ lock_calls = 0
  /\ life = <<>>
  /\ py_tracked = <<>>
  /\ py_cards = PyNewDeck
  /\ py_remove_calls = 0
  /\ py_life = <<>>
  /\ trail = <<>>
  /\ frame = NoFrame
  /\ NotRunning
  /\ NotScoring
  /\ removed_ok = 0
  /\ size = deck_size
  /\ returned = <<>>
  /\ boxA = NoCard.box
  /\ boxB = NoCard.box
  /\ overlap = <<>>
  /\ NoDetections

Init ==
  /\ confirmation_frames \in 2..MaxConfirm
  /\ disappear_frames \in 2..MaxDisappear
  /\ card = NoCard
  /\ StartInit

\* tracker.update(boxes, labels, confidences) with on_card_locked as the callback
TrackerUpdate(u) ==
  \E d \in {on_card_locked([cards |-> cards, running_count |-> running_count],
                           u.locks)} :
    /\ tracked_cards' = u.tracked_cards
    /\ infos' = u.heap
    /\ cards' = d.cards
    /\ running_count' = d.running_count
    /\ lock_calls' = lock_calls + Len(u.locks)
    /\ life' = LifeAfter(u)
    /\ removed_ok' = removed_ok
         + removals([cards |-> cards, running_count |-> running_count], u.locks)

\* the deck-holding tracker's update(boxes, labels, confidences)
PyTrackerUpdate(u) ==
  /\ py_tracked' = u.tracked_cards
  /\ py_cards' = py_remove_cards(py_cards, u.removes)
  /\ py_remove_calls' = py_remove_calls + Len(u.removes)
  /\ py_life' = PyLifeAfter(u)

\* BlackjackVisionAnalyzer.process_frame on a frame with detections
ProcessFrame(boxes, labels, confidences) ==
  /\ ticks < MaxTicks
  /\ fed + Len(boxes) <= MaxFed
  /\ \E u \in {update(tracked_cards, infos, boxes, labels, confidences,
                       confirmation_frames, disappear_frames)} :
       TrackerUpdate(u)
  /\ update_calls' = 1
  /\ ticks' = ticks + 1
  /\ fed' = fed + Len(boxes)
  /\ UNCHANGED <<confirmation_frames, disappear_frames, py_vars, card_vars,
                 deck_vars, overlap_vars,
                 nms_vars, group_vars>>

\* BlackjackVisionAnalyzer.process_frame on a frame without detections
ProcessEmptyFrame ==
  /\ ticks < MaxTicks
  /\ update_calls' = 0
  /\ ticks' = ticks + 1
  /\ UNCHANGED <<confirmation_frames, disappear_frames, tracked_cards, infos,
                 cards, running_count, fed, lock_calls, life, py_vars, card_vars,
                 removed_ok, deck_vars, overlap_vars,
                 nms_vars, group_vars>>

ProcessDetections ==
  \E n \in 1..MaxDet :
    \E boxes \in [1..n -> Boxes], labels \in [1..n -> Labels],
       confidences \in [1..n -> Confidences] :
      ProcessFrame(boxes, labels, confidences)

Next == ProcessDetections \/ ProcessEmptyFrame

Spec == Init /\ [][Next]_vars

(***************************************************************************)
(* The deck-holding tracker under CardDetectionApp (main.py).              *)
(***************************************************************************)
\* CardDetectionApp.process_frame
PyProcessFrame(boxes, labels, confidences) ==
  /\ ticks < MaxTicks
  /\ fed + Len(boxes) <= MaxFed
  /\ \E u \in {py_update(py_tracked, boxes, labels, confidences,
                          confirmation_frames, disappear_frames)} :
       PyTrackerUpdate(u)
  /\ ticks' = ticks + 1
  /\ fed' = fed + Len(boxes)
  /\ UNCHANGED <<confirmation_frames, disappear_frames, psrc_vars, card_vars,
                 deck_vars, overlap_vars,
                 nms_vars, group_vars>>

PyProcessDetections ==
  \E n \in 0..MaxDet :
    \E boxes \in [1..n -> Boxes], labels \in [1..n -> Labels],
       confidences \in [1..n -> Confidences] :
      PyProcessFrame(boxes, labels, confidences)

PyNext == PyProcessDetections

SpecPy == Init /\ [][PyNext]_vars

(***************************************************************************)
(* One card in front of both trackers: each tick the card is detected,     *)
(* unchanged, or nothing is.                                               *)
(***************************************************************************)
CardInit ==
  /\ confirmation_frames \in 2..MaxCardConfirm
  /\ disappear_frames \in 2..MaxDisappear
  /\ card \in [box : CardBoxes, label : Labels, confidence : Confidences]
  /\ StartInit

\* what a single-card run records after a tick
Observed(seen, u, pu) ==
  [seen |-> seen,
   tracked |-> Len(u.tracked_cards),
   frame_count |-> IF u.tracked_cards = <<>> THEN 0 - 1
                   ELSE u.heap[u.tracked_cards[1].ref].frame_count,
   locked |-> u.tracked_cards # <<>> /\ u.heap[u.tracked_cards[1].ref].locked,
   lock_calls |-> lock_calls + Len(u.locks),
   py_tracked |-> Len(pu.tracked_cards),
   py_frame_count |-> IF pu.tracked_cards = <<>> THEN 0 - 1
                      ELSE pu.tracked_cards[1].frame_count,
   py_locked |-> pu.tracked_cards # <<>> /\ pu.tracked_cards[1].locked_flag,
   py_remove_calls |-> py_remove_calls + Len(pu.removes)]

\* update(boxes, labels, confidences) of both trackers
CardTick(seen, boxes, labels, confidences) ==
  /\ ticks < MaxCardTicks
  /\ \E u \in {update(tracked_cards, infos, boxes, labels, confidences,
                       confirmation_frames, disappear_frames)} :
       \E pu \in {py_update(py_tracked, boxes, labels, confidences,
                            confirmation_frames, disappear_frames)} :
         /\ TrackerUpdate(u)
         /\ PyTrackerUpdate(pu)
         /\ trail' = Append(trail, Observed(seen, u, pu))
  /\ update_calls' = 1
  /\ ticks' = ticks + 1
  /\ fed' = fed + Len(boxes)
  /\ UNCHANGED <<confirmation_frames, disappear_frames, card, frame, run_vars,
                 score_vars,
                 deck_vars,
                 overlap_vars,
                 nms_vars, group_vars>>

CardSeen == CardTick(TRUE, <<card.box>>, <<card.label>>, <<card.confidence>>)

CardUnseen == CardTick(FALSE, <<>>, <<>>, <<>>)

CardNext == CardSeen \/ CardUnseen

SpecCard == CardInit /\ [][CardNext]_vars

(***************************************************************************)
(* Both trackers handed the same detections, tick after tick.              *)
(***************************************************************************)
\* update(boxes, labels, confidences) of both trackers
PairTick(boxes, labels, confidences) ==
  /\ ticks < MaxTicks
  /\ fed + Len(boxes) <= MaxFed
  /\ \E u \in {update(tracked_cards, infos, boxes, labels, confidences,
                       confirmation_frames, disappear_frames)} :
       \E pu \in {py_update(py_tracked, boxes, labels, confidences,
                            confirmation_frames, disappear_frames)} :
         /\ TrackerUpdate(u)
         /\ PyTrackerUpdate(pu)
  /\ frame' = [boxes |-> boxes, labels |-> labels, confidences |-> confidences]
  /\ update_calls' = 1
  /\ ticks' = ticks + 1
  /\ fed' = fed + Len(boxes)
  /\ UNCHANGED <<confirmation_frames, disappear_frames, card, trail, run_vars,
                 score_vars,
                 deck_vars, overlap_vars, nms_vars, group_vars>>

PairNext ==
  \E n \in 0..MaxDet :
    \E boxes \in [1..n -> Boxes], labels \in [1..n -> Labels],
       confidences \in [1..n -> Confidences] :
      PairTick(boxes, labels, confidences)

SpecPair == Init /\ [][PairNext]_vars

(***************************************************************************)
(* The analyzer's main loop (psrc/main.py run).  Times are readings of     *)
(* time.time() in hundredths of a second: seconds since the epoch, so the  *)
(* first reading is no smaller than the configured interval; later         *)
(* readings may repeat, advance or step back with the wall clock.          *)
(***************************************************************************)
StartTimes == {inference_interval, 1000}
TimeSteps == {0 - 10, 0, 10, inference_interval, 40}

\* a test that lets every frame through
ShouldProcess_EveryFrame(now, last) == TRUE

\* line 200
ShouldProcess(now, last) == now - last >= inference_interval

\* lines 190-210 when the interval has elapsed: process_frame on the frame
RunProcessFrame(now, boxes, labels, confidences) ==
  /\ ticks < MaxFrames
  /\ fed + Len(boxes) <= MaxFed
  /\ ShouldProcess(now, last_update)
  /\ IF boxes # <<>>
       THEN /\ \E u \in {update(tracked_cards, infos, boxes, labels, confidences,
                                 confirmation_frames, disappear_frames)} :
                 TrackerUpdate(u)
            /\ update_calls' = 1
       ELSE /\ update_calls' = 0
            /\ UNCHANGED <<tracked_cards, infos, cards, running_count,
                           lock_calls, life, removed_ok>>
  /\ last_update' = now
  /\ annotated_frame' = <<[frame |-> ticks + 1, annotated |-> TRUE]>>
  /\ current_time' = now
  /\ ticks' = ticks + 1
  /\ fed' = fed + Len(boxes)
  /\ UNCHANGED <<confirmation_frames, disappear_frames, py_vars, card, trail,
                 frame, score_vars, deck_vars, overlap_vars, nms_vars,
                 group_vars>>

\* lines 190-210 when the interval has not elapsed
RunSkipFrame(now) ==
  /\ ticks < MaxFrames
  /\ ~ShouldProcess(now, last_update)
  /\ annotated_frame' = IF annotated_frame # <<>> THEN annotated_frame
                        ELSE <<[frame |-> ticks + 1, annotated |-> FALSE]>>
  /\ current_time' = now
  /\ ticks' = ticks + 1
  /\ UNCHANGED <<confirmation_frames, disappear_frames, psrc_vars, fed,
                 last_update, py_vars, card, trail, frame, score_vars,
                 deck_vars,
                 overlap_vars, nms_vars, group_vars>>

\* line 197
Readings == IF ticks = 0 THEN StartTimes
            ELSE {current_time + d : d \in TimeSteps}

\* frames with at most one card on them
RunProcess ==
  \E now \in Readings, n \in 0..1 :
    \E boxes \in [1..n -> Boxes], labels \in [1..n -> Labels],
       confidences \in [1..n -> Confidences] :
      RunProcessFrame(now, boxes, labels, confidences)

RunSkip == \E now \in Readings : RunSkipFrame(now)

RunNext == RunProcess \/ RunSkip

SpecRun == Init /\ [][RunNext]_vars

(***************************************************************************)
(* The analyzer started on a deck that earlier frames may have left        *)
(* without a "7": four sevens were locked and removed, and their cards     *)
(* have been forgotten by the tracker since.                               *)
(***************************************************************************)
LedgerInit ==
  /\ confirmation_frames \in 2..MaxConfirm
  /\ disappear_frames \in 2..MaxDisappear
  /\ card = NoCard
  /\ tracked_cards = <<>>
  /\ infos = <<>>
  /\ \E sevens \in {0, 4 * deck_size} :
       /\ cards = [NewDeck(deck_size).cards EXCEPT !["7"] = sevens]
       /\ lock_calls = 4 * deck_size - sevens
       /\ removed_ok = 4 * deck_size - sevens
  /\ running_count = 0
  /\ update_calls = 0
  /\ ticks = 0
  /\ fed = 0
  /\ life = <<>>
  /\ py_tracked = <<>>
  /\ py_cards = PyNewDeck
  /\ py_remove_calls = 0
  /\ py_life = <<>>
  /\ trail = <<>>
  /\ frame = NoFrame
  /\ NotRunning
  /\ NotScoring
  /\ size = deck_size
  /\ returned = <<>>
  /\ boxA = NoCard.box
  /\ boxB = NoCard.box
  /\ overlap = <<>>
  /\ NoDetections

SpecLedger == LedgerInit /\ [][Next]_vars

(***************************************************************************)
(* A CardDeck on its own: constructed with some size, then remove_card     *)
(* called with any labels.                                                 *)
(***************************************************************************)
\* the sizes a CardDeck is constructed with
DeckSizes == (0 - 1)..MaxDeckSize

\* the labels remove_card is called with: the ranks and the unknown label
DeckLabels == CARD_LABELS \cup {"?"}

\* the variables no call on a CardDeck touches
undecked_vars == <<confirmation_frames, disappear_frames, tracked_cards, infos,
                   update_calls, ticks, fed, lock_calls, life, py_vars,
                   card_vars, removed_ok, overlap_vars,
                 nms_vars, group_vars>>

\* the tracker, the deck-holding tracker and the analyzer's counters at rest
Untracked ==
  /\ confirmation_frames = 2
  /\ disappear_frames = 2
  /\ card = NoCard
  /\ tracked_cards = <<>>
  /\ infos = <<>>
  /\ update_calls = 0
  /\ ticks = 0
  /\ fed = 0
  /\ lock_calls = 0
  /\ life = <<>>
  /\ py_tracked = <<>>
  /\ py_cards = PyNewDeck
  /\ py_remove_calls = 0
  /\ py_life = <<>>
  /\ trail = <<>>
  /\ frame = NoFrame
  /\ NotRunning
  /\ removed_ok = 0

NoTracking == Untracked /\ NotScoring

\* CardDeck(size)
DeckInit ==
  /\ size \in DeckSizes
  /\ cards = NewDeck(size).cards
  /\ running_count = NewDeck(size).running_count
  /\ returned = <<>>
  /\ boxA = NoCard.box
  /\ boxB = NoCard.box
  /\ overlap = <<>>
  /\ NoDetections
  /\ NoTracking

\* cards removed from the deck so far
Removed == 52 * size - SumCards(cards, DOMAIN cards)

\* deck.remove_card(card_label)
RemoveCard(card_label) ==
  /\ Removed < MaxRemovals
  /\ \E d \in {remove_card([cards |-> cards, running_count |-> running_count],
                            card_label)} :
       /\ cards' = d.cards
       /\ running_count' = d.running_count
       /\ returned' = <<d.ok>>
  /\ UNCHANGED <<size, undecked_vars>>

DeckNext == \E card_label \in DeckLabels : RemoveCard(card_label)

SpecDeck == DeckInit /\ [][DeckNext]_vars

(***************************************************************************)
(* CardDeck from its construction to its last card.  A deck starts fresh,  *)
(* or as the calls of remove_card leave it that take every card of all but *)
(* MaxRanksLeft ranks, or every card counted +1, or every card counted -1; *)
(* a fresh deck is followed for MaxRemovals removals and a deck run down   *)
(* to MaxRanksLeft ranks until it is empty.                                *)
(***************************************************************************)
\* remove_card(card_label) called until it returns False
RECURSIVE RemoveAll(_, _)
RemoveAll(deck, card_label) ==
  LET d == remove_card(deck, card_label)
  IN IF d.ok THEN RemoveAll([cards |-> d.cards, running_count |-> d.running_count],
                            card_label)
     ELSE deck

\* RemoveAll for every rank of ranks
RECURSIVE Exhaust(_, _)
Exhaust(deck, ranks) ==
  IF ranks = {} THEN deck
  ELSE LET l == CHOOSE x \in ranks : TRUE
       IN Exhaust(RemoveAll(deck, l), ranks \ {l})

DrainInit ==
  /\ size \in DeckSizes
  /\ \E left \in SUBSET CARD_LABELS :
       /\ \/ left = CARD_LABELS
          \/ Cardinality(left) <= MaxRanksLeft
          \/ left = {l \in CARD_LABELS : HI_LO_VALUES(l) # 1}
          \/ left = {l \in CARD_LABELS : HI_LO_VALUES(l) # 0 - 1}
       /\ \E d \in {Exhaust([cards |-> NewDeck(size).cards,
                               running_count |-> NewDeck(size).running_count],
                              CARD_LABELS \ left)} :
            /\ cards = d.cards
            /\ running_count = d.running_count
  /\ returned = <<>>
  /\ boxA = NoCard.box
  /\ boxB = NoCard.box
  /\ overlap = <<>>
  /\ NoDetections
  /\ NoTracking

\* deck.remove_card(card_label)
DrainCard(card_label) ==
  /\ \/ Removed < MaxRemovals
     \/ SumCards(cards, DOMAIN cards) <= 4 * size * MaxRanksLeft
  /\ \E d \in {remove_card([cards |-> cards, running_count |-> running_count],
                            card_label)} :
       /\ cards' = d.cards
       /\ running_count' = d.running_count
       /\ returned' = <<d.ok>>
  /\ UNCHANGED <<size, undecked_vars>>

DrainNext == \E card_label \in DeckLabels : DrainCard(card_label)

SpecDrain == DrainInit /\ [][DrainNext]_vars

(***************************************************************************)
(* compute_overlap on its own: two rectangles with coordinates in          *)
(* 0..MaxCoord, any order of the corners, and the function applied both    *)
(* ways round.                                                             *)
(***************************************************************************)
Rects == [1..4 -> 0..MaxCoord]

OverlapInit ==
  /\ boxA \in Rects
  /\ boxB \in Rects
  /\ overlap = <<>>
  /\ NoDetections
  /\ cards = NewDeck(deck_size).cards
  /\ running_count = NewDeck(deck_size).running_count
  /\ size = deck_size
  /\ returned = <<>>
  /\ NoTracking

\* compute_overlap(boxA, boxB) and compute_overlap(boxB, boxA)
ComputeOverlap ==
  /\ overlap = <<>>
  /\ overlap' = <<compute_overlap(boxA, boxB), compute_overlap(boxB, boxA)>>
  /\ UNCHANGED <<boxA, boxB, cards, running_count, deck_vars,
                 confirmation_frames, disappear_frames, tracked_cards, infos,
                 update_calls, ticks, fed, lock_calls, life, py_vars, card_vars,
                 removed_ok, nms_vars, group_vars>>

OverlapNext == ComputeOverlap

SpecOverlap == OverlapInit /\ [][OverlapNext]_vars

(***************************************************************************)
(* calculate_hand_score on its own: every hand of up to MaxScored cards    *)
(* over the thirteen ranks.                                                *)
(***************************************************************************)
ScoreInit ==
  /\ \E n \in 0..MaxScored : hand \in [1..n -> CARD_LABELS]
  /\ score = <<>>
  /\ game_score = <<>>
  /\ cards = NewDeck(deck_size).cards
  /\ running_count = NewDeck(deck_size).running_count
  /\ size = deck_size
  /\ returned = <<>>
  /\ boxA = NoCard.box
  /\ boxB = NoCard.box
  /\ overlap = <<>>
  /\ NoDetections
  /\ Untracked

\* hand_utils.calculate_hand_score(hand)
CalculateHandScore ==
  /\ score = <<>>
  /\ score' = <<calculate_hand_score(hand)>>
  /\ UNCHANGED <<hand, game_score, confirmation_frames, disappear_frames,
                 psrc_vars, ticks, fed, py_vars, card, trail, frame, run_vars,
                 deck_vars, overlap_vars, nms_vars, group_vars>>

\* game/scorer.calculate_hand_score(hand)
GameCalculateHandScore ==
  /\ game_score = <<>>
  /\ game_score' = <<game_calculate_hand_score(hand)>>
  /\ UNCHANGED <<hand, score, confirmation_frames, disappear_frames,
                 psrc_vars, ticks, fed, py_vars, card, trail, frame, run_vars,
                 deck_vars, overlap_vars, nms_vars, group_vars>>

ScoreNext == CalculateHandScore \/ GameCalculateHandScore

SpecScore == ScoreInit /\ [][ScoreNext]_vars

(***************************************************************************)
(* apply_nms on its own: up to MaxNms detections, then apply_nms applied   *)
(* to them and once more to what it returned.                              *)
(***************************************************************************)
NmsBoxes == {BoxBig, BoxS1, BoxS2, BoxMid}

\* thresholds, in hundredths
NmsThresholds == {5, 50, inference_overlap_threshold}

\* a deck, two rectangles and nothing tracked
NoDeckNoOverlap ==
  /\ cards = NewDeck(deck_size).cards
  /\ running_count = NewDeck(deck_size).running_count
  /\ size = deck_size
  /\ returned = <<>>
  /\ boxA = NoCard.box
  /\ boxB = NoCard.box
  /\ overlap = <<>>
  /\ NoTracking

NmsInit ==
  /\ \E n \in 0..MaxNms :
       detections \in [boxes : [1..n -> NmsBoxes],
                       labels : [1..n -> Labels],
                       confidences : [1..n -> Confidences],
                       overlap_threshold : NmsThresholds]
  /\ kept = <<>>
  /\ filtered = <<>>
  /\ NoGrouping
  /\ NoDeckNoOverlap

\* apply_nms(boxes, labels, confidences, overlap_threshold)
ApplyNms ==
  /\ filtered = <<>>
  /\ filtered' = <<apply_nms(detections.boxes, detections.labels,
                             detections.confidences,
                             detections.overlap_threshold)>>
  /\ kept' = <<keep(detections.boxes, sorted_indices(detections.confidences),
                    detections.overlap_threshold)>>
  /\ UNCHANGED <<detections, group_vars, cards, running_count, deck_vars,
                 overlap_vars, confirmation_frames, disappear_frames,
                 tracked_cards, infos, update_calls, ticks, fed, lock_calls,
                 life, py_vars, card_vars, removed_ok>>

\* apply_nms(*apply_nms(boxes, labels, confidences, t), t)
ReapplyNms ==
  /\ Len(filtered) = 1
  /\ filtered' = Append(filtered,
                        apply_nms(filtered[1].boxes, filtered[1].labels,
                                  filtered[1].confidences,
                                  detections.overlap_threshold))
  /\ UNCHANGED <<detections, kept, group_vars, cards, running_count,
                 deck_vars, overlap_vars, confirmation_frames,
                 disappear_frames, tracked_cards, infos, update_calls, ticks,
                 fed, lock_calls, life, py_vars, card_vars, removed_ok>>

NmsNext == ApplyNms \/ ReapplyNms

SpecNms == NmsInit /\ [][NmsNext]_vars

(***************************************************************************)
(* group_cards on its own: up to MaxHand boxes and a threshold, grouped    *)
(* by detection_utils.group_cards and by hand_detector.group_cards.        *)
(***************************************************************************)
HandBoxes == {BoxBig, BoxS1, BoxS2, BoxMid, BoxHalf, BoxFar}

\* thresholds, in hundredths: the configured 0.1, 0.5, 0.6 and one above
\* every overlap
HandThresholds == {overlap_threshold, 50, 60, 101}

GroupInit ==
  /\ \E n \in 0..MaxHand : hand_boxes \in [1..n -> HandBoxes]
  /\ hand_threshold \in HandThresholds
  /\ groups = <<>>
  /\ hands = <<>>
  /\ NoSuppression
  /\ NoDeckNoOverlap

\* detection_utils.group_cards(boxes, overlap_threshold)
GroupCards ==
  /\ hands = <<>>
  /\ hands' = <<group_cards(hand_boxes, hand_threshold)>>
  /\ UNCHANGED <<hand_boxes, hand_threshold, groups, nms_vars, cards,
                 running_count, deck_vars, overlap_vars, confirmation_frames,
                 disappear_frames, tracked_cards, infos, update_calls, ticks,
                 fed, lock_calls, life, py_vars, card_vars, removed_ok>>

\* hand_detector.group_cards(boxes, threshold)
HandDetectorGroupCards ==
  /\ groups = <<>>
  /\ groups' = <<hand_detector_group_cards(hand_boxes, hand_threshold)>>
  /\ UNCHANGED <<hand_boxes, hand_threshold, hands, nms_vars, cards,
                 running_count, deck_vars, overlap_vars, confirmation_frames,
                 disappear_frames, tracked_cards, infos, update_calls, ticks,
                 fed, lock_calls, life, py_vars, card_vars, removed_ok>>

GroupNext == GroupCards \/ HandDetectorGroupCards

SpecGroup == GroupInit /\ [][GroupNext]_vars

(***************************************************************************)
(* Properties.                                                             *)
(***************************************************************************)
\* every tick of the single-card run so far detected the card
AllSeen == \A i \in 1..Len(trail) : trail[i].seen

\* x1 < x2 and y1 < y2
WellFormed(box) == box[1] < box[3] /\ box[2] < box[4]

ConfidentCard == card.confidence >= confidence_threshold

\* C1: under Spec, on_lock_callback has been called at most once for every
\* tracked info dict, whatever matched it since it was created.
C1_LockAtMostOncePerIdentity ==
  \A r \in DOMAIN life : life[r].fired <= 1

\* C1: an info dict whose lock fired once and that a detection matched again
\* when it was already locked.
C1_LockedAndMatchedAgain ==
  \E r \in DOMAIN life : life[r].fired = 1 /\ life[r].rematched >= 1

\* C2: under SpecPy, deck.remove_card has been called at most once for every
\* tracked identity (fails: two detections of one tick that match the same
\* tracked box each charge the deck).
C2_RemoveAtMostOncePerIdentity ==
  \A r \in DOMAIN py_life : py_life[r] <= 1

\* C3 as claimed: under SpecCard, once the same single box with confidence
\* >= confidence_threshold has been fed for M >= confirmation_frames ticks in
\* a row from an empty tracker, each tracker has made exactly one removal.
C3_ExactlyOneRemoval ==
  (AllSeen /\ ConfidentCard /\ ticks >= confirmation_frames)
    => (lock_calls = 1 /\ py_remove_calls = 1)

\* C3 as amended: the same, for a box with x1 < x2 and y1 < y2.
C3_ExactlyOneRemovalWellFormed ==
  (AllSeen /\ ConfidentCard /\ WellFormed(card.box) /\ ticks >= confirmation_frames)
    => (lock_calls = 1 /\ py_remove_calls = 1)

\* C3: a well-formed confident card fed for more ticks than confirmation_frames.
C3_FedBeyondConfirmation ==
  /\ AllSeen /\ ConfidentCard /\ WellFormed(card.box)
  /\ ticks >= confirmation_frames + 2
  /\ lock_calls = 1 /\ py_remove_calls = 1

\* the scenario of C4: confirmation 3, disappearance 2, a confident "7"
\* detected at the same box in every tick so far
SevenScenario ==
  /\ confirmation_frames = 3 /\ disappear_frames = 2
  /\ card.label = "7" /\ ConfidentCard /\ AllSeen

FreshDeck ==
  /\ cards = [l \in CARD_LABELS |-> 4 * deck_size]
  /\ running_count = 0

SevenRemoved ==
  /\ cards = [l \in CARD_LABELS |-> IF l = "7" THEN 4 * deck_size - 1 ELSE 4 * deck_size]
  /\ running_count = 0

\* what C4 says of the scenario
SevenOutcome ==
  /\ ticks \in {1, 2} => (lock_calls = 0 /\ FreshDeck)
  /\ ticks = 3 => (lock_calls = 1 /\ SevenRemoved)

\* C4 as claimed: under SpecCard, in the scenario no removal happens in ticks
\* 1 and 2 and tick 3 fires the lock: cards["7"] = 3, every other rank 4,
\* running_count 0.
C4_SevenLocksInThirdTick == SevenScenario => SevenOutcome

\* C4 as amended: the same, for a box with x1 < x2 and y1 < y2.
C4_SevenLocksInThirdTickWellFormed ==
  (SevenScenario /\ WellFormed(card.box)) => SevenOutcome

\* C4: the scenario after its third tick, the "7" removed.
C4_AfterThirdTick ==
  SevenScenario /\ WellFormed(card.box) /\ ticks = 3 /\ SevenRemoved

\* tick i of the single-card run ended with the card seen in every tick so
\* far and its frame_count at confirmation_frames - 1, and the
\* disappear_frames ticks after it did not detect the card
LostBeforeConfirmation(i) ==
  /\ \A j \in 1..i : trail[j].seen
  /\ trail[i].frame_count = confirmation_frames - 1
  /\ Len(trail) >= i + disappear_frames
  /\ \A j \in (i + 1)..(i + disappear_frames) : ~trail[j].seen

\* tick k is the first after tick i + disappear_frames that detects the card
Reappears(i, k) ==
  /\ k \in (i + disappear_frames + 1)..Len(trail)
  /\ trail[k].seen
  /\ \A j \in (i + disappear_frames + 1)..(k - 1) : ~trail[j].seen

\* C5: under SpecCard, a card lost at frame_count = confirmation_frames - 1
\* for disappear_frames ticks is no longer tracked and has not fired the
\* lock; detected again at the same box, it is a new unlocked entry whose
\* frame_count is 1 (0 below confidence_threshold).
C5_ForgottenThenNew ==
  \A i \in 1..Len(trail) :
    LostBeforeConfirmation(i) =>
      /\ trail[i + disappear_frames].tracked = 0
      /\ trail[i + disappear_frames].lock_calls = 0
      /\ \A k \in 1..Len(trail) :
           Reappears(i, k) =>
             /\ trail[k].tracked = 1
             /\ ~trail[k].locked
             /\ trail[k].frame_count = (IF ConfidentCard THEN 1 ELSE 0)
             /\ trail[k].lock_calls = 0

\* C5: a run in which the card was lost before confirmation and detected again.
C5_LostAndDetectedAgain ==
  \E i \in 1..Len(trail) :
    /\ i >= 2
    /\ LostBeforeConfirmation(i)
    /\ Reappears(i, Len(trail))

\* C6: under SpecPy, every tracked entry with frame_count >=
\* confirmation_frames has locked_flag set (fails: a frame in which the card
\* is not detected counts it up to confirmation_frames without charging the
\* deck).
C6_ConfirmedImpliesLocked ==
  \A i \in 1..Len(py_tracked) :
    py_tracked[i].frame_count >= confirmation_frames => py_tracked[i].locked_flag

\* C7: under Spec, an info dict whose lock has fired was detected in at
\* least confirmation_frames ticks (fails: an undetected frame and a second
\* match in one frame count as well).
C7_LockOnlyAfterConfirmationTicks ==
  \A r \in DOMAIN life :
    life[r].fired >= 1 => life[r].detected >= confirmation_frames

\* C8: under Spec, an update drops an info dict only when it has gone
\* unmatched for more than disappear_frames consecutive updates, this one
\* included (fails: the count of detections is the count of absences).
C8_DroppedOnlyAfterDisappearFrames ==
  [][\A r \in DOMAIN life :
       r \notin DOMAIN life' => life[r].missed + 1 > disappear_frames]_vars

\* C9: under Spec, the last processed frame reached tracker.update exactly
\* once (fails: a frame without detections is not handed to the tracker).
C9_EveryFrameReachesUpdate ==
  ticks > 0 => update_calls = 1

\* the inputs a call of update is checked on
CallInputs(n) ==
  [boxes : [1..n -> CardBoxes], labels : [1..n -> Labels],
   confidences : [1..n -> Confidences]]

\* C10: under Spec, from the tracker's state update returns len(boxes) labels
\* for every input, and a detection below confidence_threshold that matches
\* no tracked card gets its own label (fails: the label is looked up by the
\* first equal box).
C10_OneLabelPerDetection ==
  \A n \in 0..MaxDet : \A in \in CallInputs(n) :
    LET u == update(tracked_cards, infos, in.boxes, in.labels, in.confidences,
                    confirmation_frames, disappear_frames)
    IN /\ Len(u.displayed_labels) = n
       /\ \A k \in 1..n :
            (/\ FirstMatch(tracked_cards, in.boxes[k]) = 0
             /\ in.confidences[k] < confidence_threshold)
              => u.displayed_labels[k] = in.labels[k]

\* the calls of update whose boxes are pairwise different
DistinctInputs(n) ==
  {in \in CallInputs(n) :
     \A j, k \in 1..n : in.boxes[j] = in.boxes[k] => j = k}

\* C11: under Spec, from the tracker's state update displays for every
\* detection k the stored label of the info dict the detection matched, when
\* that dict is locked after the call, and labels[k] otherwise: a detection
\* that matched nothing is bound to a new, unlocked dict.  Stated for calls
\* whose boxes are pairwise different, where labels[boxes.index(box)] is
\* labels[k] (fails: the label is taken from the first tracked box the
\* detection overlaps after the update, which may hold another card's dict).
C11_LockedLabelElseRaw ==
  \A n \in 0..MaxDet : \A in \in DistinctInputs(n) :
    LET u == update(tracked_cards, infos, in.boxes, in.labels, in.confidences,
                    confirmation_frames, disappear_frames)
    IN \A k \in 1..n :
         LET i == FirstMatch(tracked_cards, in.boxes[k])
         IN u.displayed_labels[k] =
              IF i # 0 /\ u.heap[tracked_cards[i].ref].locked
                THEN u.heap[tracked_cards[i].ref].label
                ELSE in.labels[k]

\* the calls of update with one label fewer than boxes
ShortInputs(n) ==
  [boxes : [1..n -> Boxes], labels : [1..(n - 1) -> Labels],
   confidences : [1..n -> Confidences]]

\* C12: under Spec, from the tracker's state a call of update with fewer
\* labels than boxes leaves every info dict as it was and calls the lock
\* callback for none (fails: the detections before the missing label are
\* tracked before labels[i] raises).
C12_ShortLabelsChangeNothing ==
  \A n \in 1..MaxDet : \A in \in ShortInputs(n) :
    LET u == update_raising(tracked_cards, infos, in.boxes, in.labels,
                            in.confidences, confirmation_frames)
    IN /\ u.tracked_cards = tracked_cards
       /\ u.heap = infos
       /\ u.locks = <<>>

\* the deck as remove_card and get_true_count see it
TheDeck == [cards |-> cards, running_count |-> running_count]

\* C13 as claimed: under SpecDeck, a deck of any size has 0 <= cards[r] <=
\* 4 * size for every rank, whatever remove_card was called with.
C13_CountsWithinDeck ==
  \A r \in CARD_LABELS : 0 <= cards[r] /\ cards[r] <= 4 * size

\* C13 as amended: the same, for a deck constructed with size >= 0.
C13_CountsWithinDeckOfSizeNotNegative ==
  size >= 0 => \A r \in CARD_LABELS : 0 <= cards[r] /\ cards[r] <= 4 * size

\* C13: a rank removed down to 0 and a call of remove_card that failed.
C13_RankExhausted ==
  /\ size >= 1
  /\ \E r \in CARD_LABELS : cards[r] = 0
  /\ returned = <<FALSE>>

\* C14: under SpecDeck, from every deck remove_card with a label that is not
\* a rank, or with a rank whose count is 0, returns False and leaves every
\* count and running_count as they were.
C14_FailedRemovalChangesNothing ==
  \A card_label \in DeckLabels :
    (card_label \notin CARD_LABELS \/ cards[card_label] = 0) =>
      LET d == remove_card(TheDeck, card_label)
      IN ~d.ok /\ d.cards = cards /\ d.running_count = running_count

\* C14: remove_card has just failed on a deck with a rank at 0 and a
\* running_count that is not 0.
C14_FailedOnExhaustedRank ==
  /\ returned = <<FALSE>>
  /\ size >= 1
  /\ \E r \in CARD_LABELS : cards[r] = 0
  /\ running_count # 0

\* the weight C15 gives each rank
ClaimedWeight(r) ==
  IF r \in {"2", "3", "4", "5", "6"} THEN 1
  ELSE IF r \in {"7", "8", "9"} THEN 0
  ELSE 0 - 1

\* C15: under SpecDeck, from every deck remove_card of a rank with count > 0
\* returns True, takes 1 from that rank's count only and adds the rank's
\* weight to running_count.
C15_RemovalTakesOneAndCounts ==
  \A r \in CARD_LABELS :
    cards[r] > 0 =>
      LET d == remove_card(TheDeck, r)
      IN /\ d.ok
         /\ d.cards[r] = cards[r] - 1
         /\ \A q \in CARD_LABELS \ {r} : d.cards[q] = cards[q]
         /\ d.running_count = running_count + ClaimedWeight(r)

\* C15: remove_card has just succeeded, after a low, a neutral and a high
\* rank were removed.
C15_EachWeightRemoved ==
  /\ returned = <<TRUE>>
  /\ \E r \in {"2", "3", "4", "5", "6"} : cards[r] < 4 * size
  /\ \E r \in {"7", "8", "9"} : cards[r] < 4 * size
  /\ \E r \in {"10", "J", "Q", "K", "A"} : cards[r] < 4 * size

\* C16: under SpecLedger, a processed frame in which the lock callback is
\* not called leaves cards and running_count as they were, and the cards
\* removed from the deck are as many as the callbacks whose remove_card
\* returned True.
C16_LedgerChangedOnlyByLocks ==
  [][/\ lock_calls' = lock_calls =>
          (cards' = cards /\ running_count' = running_count)
     /\ 52 * deck_size - SumCards(cards', DOMAIN cards') = removed_ok']_vars

\* C16: a frame has just been processed in which the lock callback was
\* called and its remove_card failed, the deck having no "7" left.
C16_LockFailedToRemove ==
  /\ ticks > 0
  /\ update_calls = 1
  /\ lock_calls = removed_ok + 1
  /\ \E r \in DOMAIN infos : infos[r].locked /\ infos[r].label = "7"

\* a = b for fractions with positive denominators
SameRatio(a, b) == a.num * b.den = b.num * a.den

\* C17: under SpecDeck, get_true_count is running_count * 52 /
\* remaining_total when cards remain, running_count when none remain, and 0
\* for a fresh deck of size 1.
C17_TrueCountPerDeckRemaining ==
  LET remaining_total == SumCards(cards, DOMAIN cards)
      true_count == get_true_count(TheDeck)
  IN /\ remaining_total > 0 =>
          SameRatio(true_count, [num |-> running_count * 52, den |-> remaining_total])
     /\ remaining_total = 0 =>
          SameRatio(true_count, [num |-> running_count, den |-> 1])
     /\ (size = 1 /\ remaining_total = 52 /\ running_count = 0) =>
          SameRatio(true_count, [num |-> 0, den |-> 1])

\* C17: a deck with cards remaining whose true count is not a whole number.
C17_FractionalTrueCount ==
  /\ SumCards(cards, DOMAIN cards) > 0
  /\ running_count # 0
  /\ get_true_count(TheDeck).num % get_true_count(TheDeck).den # 0

\* C18 as claimed: under SpecDeck, get_true_count is running_count /
\* max(1, remaining_total / 52): running_count itself when fewer than 52
\* cards remain.
C18_TrueCountFlooredAtOneDeck ==
  LET remaining_total == SumCards(cards, DOMAIN cards)
      true_count == get_true_count(TheDeck)
  IN IF remaining_total >= 52
       THEN SameRatio(true_count, [num |-> running_count * 52, den |-> remaining_total])
       ELSE SameRatio(true_count, [num |-> running_count, den |-> 1])

\* C18 as amended: with 1 to 51 cards remaining get_true_count is
\* running_count * 52 / remaining_total, which is running_count only when
\* running_count is 0 and is never smaller in size; it is running_count
\* itself only when no cards remain.
C18_TrueCountGrowsBelowOneDeck ==
  LET remaining_total == SumCards(cards, DOMAIN cards)
      true_count == get_true_count(TheDeck)
  IN /\ (0 < remaining_total /\ remaining_total < 52) =>
          /\ true_count.num * remaining_total = running_count * 52 * true_count.den
          /\ (SameRatio(true_count, [num |-> running_count, den |-> 1])
                <=> running_count = 0)
          /\ true_count.num * true_count.num
               >= running_count * running_count * true_count.den * true_count.den
     /\ remaining_total <= 0 =>
          SameRatio(true_count, [num |-> running_count, den |-> 1])

\* C18: a deck of fewer than 52 cards with a running_count that is not 0.
C18_BelowOneDeckWithCount ==
  /\ 0 < SumCards(cards, DOMAIN cards)
  /\ SumCards(cards, DOMAIN cards) < 52
  /\ running_count # 0

\* x2 <= x1 or y2 <= y1: a rectangle of zero width or height, or inverted
Degenerate(box) == box[3] <= box[1] \/ box[4] <= box[2]

\* the rectangles share no area
DoNotIntersect(a, b) ==
  \/ Min(a[3], b[3]) <= Max(a[1], b[1])
  \/ Min(a[4], b[4]) <= Max(a[2], b[2])

\* C19: under SpecOverlap, compute_overlap(a, b) is compute_overlap(b, a)
\* for all rectangles, degenerate and inverted ones included.
C19_OverlapSymmetric ==
  overlap # <<>> => overlap[1] = overlap[2]

\* C19: two different rectangles of different areas that overlap in part.
C19_PartialOverlapComputed ==
  /\ overlap # <<>>
  /\ boxA # boxB
  /\ (boxA[3] - boxA[1]) * (boxA[4] - boxA[2])
       # (boxB[3] - boxB[1]) * (boxB[4] - boxB[2])
  /\ overlap[1].num > 0
  /\ overlap[1].num < overlap[1].den

\* C20: under SpecOverlap, compute_overlap is never negative, and is exactly
\* 0 when the rectangles do not intersect or either is degenerate or
\* inverted.
C20_ZeroWhenApartOrDegenerate ==
  overlap # <<>> =>
    /\ overlap[1].den > 0
    /\ overlap[1].num >= 0
    /\ (DoNotIntersect(boxA, boxB) \/ Degenerate(boxA) \/ Degenerate(boxB))
         => overlap[1].num = 0

\* C20: compute_overlap applied to a rectangle inverted in both directions,
\* whose area (x2 - x1) * (y2 - y1) is positive, and a well-formed one
\* around it.
C20_InvertedInsideWellFormed ==
  /\ overlap # <<>>
  /\ boxA[3] < boxA[1] /\ boxA[4] < boxA[2]
  /\ ~Degenerate(boxB)
  /\ boxB[1] <= boxA[3] /\ boxA[1] <= boxB[3]
  /\ boxB[2] <= boxA[4] /\ boxA[2] <= boxB[4]
  /\ overlap[1] = [num |-> 0, den |-> 1]

\* the area of a well-formed rectangle
Area(box) == (box[3] - box[1]) * (box[4] - box[2])

\* the area two well-formed rectangles share
SharedArea(a, b) ==
  Max(0, Min(a[3], b[3]) - Max(a[1], b[1]))
    * Max(0, Min(a[4], b[4]) - Max(a[2], b[2]))

\* rectangle a lies entirely inside rectangle b
Inside(a, b) ==
  /\ b[1] <= a[1] /\ a[3] <= b[3]
  /\ b[2] <= a[2] /\ a[4] <= b[4]

\* C21: under SpecOverlap, for all well-formed rectangles a and b (x1 < x2
\* and y1 < y2), 0 <= compute_overlap(a, b) <= 1.
C21_OverlapWithinUnitInterval ==
  (overlap # <<>> /\ WellFormed(boxA) /\ WellFormed(boxB)) =>
    /\ overlap[1].den > 0
    /\ 0 <= overlap[1].num
    /\ overlap[1].num <= overlap[1].den

\* C21: two well-formed rectangles of the same area that overlap in part.
C21_EqualAreasOverlapInPart ==
  /\ overlap # <<>>
  /\ WellFormed(boxA) /\ WellFormed(boxB)
  /\ Area(boxA) = Area(boxB)
  /\ 0 < overlap[1].num
  /\ overlap[1].num < overlap[1].den

\* C22: under SpecOverlap, for rectangles of positive area (x1 < x2 and
\* y1 < y2) compute_overlap(a, b) is the area they share divided by the
\* smaller of their areas, and is exactly 1 when one lies entirely inside
\* the other, whatever their size ratio.
C22_SharedAreaOverSmallerArea ==
  (overlap # <<>> /\ WellFormed(boxA) /\ WellFormed(boxB)) =>
    /\ overlap[1].den > 0
    /\ SameRatio(overlap[1],
                 [num |-> SharedArea(boxA, boxB),
                  den |-> Min(Area(boxA), Area(boxB))])
    /\ (Inside(boxA, boxB) \/ Inside(boxB, boxA))
         => overlap[1].num = overlap[1].den

\* C22: a rectangle strictly inside one of nine times its area, the overlap
\* computed as 1.
C22_SmallInsideLarge ==
  /\ overlap # <<>>
  /\ WellFormed(boxA) /\ WellFormed(boxB)
  /\ Inside(boxA, boxB)
  /\ Area(boxB) = 9 * Area(boxA)
  /\ overlap[1].num = overlap[1].den

\* C23: under SpecNms, apply_nms applied with the same threshold to what it
\* returned gives the same boxes, labels and confidences in the same order.
C23_NmsIdempotent ==
  Len(filtered) = 2 => filtered[2] = filtered[1]

\* C23: apply_nms applied to its own output of two detections of the same
\* confidence, a third detection having been suppressed.
C23_ReappliedToTiedSurvivors ==
  /\ Len(filtered) = 2
  /\ Len(detections.boxes) = 3
  /\ Len(filtered[1].boxes) = 2
  /\ filtered[1].confidences[1] = filtered[1].confidences[2]

\* the index of the detection sorted first: the highest confidence, the
\* lowest index among equals
Highest(confidences) ==
  CHOOSE i \in 0..(Len(confidences) - 1) :
    \A j \in 0..(Len(confidences) - 1) :
      \/ confidences[i + 1] > confidences[j + 1]
      \/ confidences[i + 1] = confidences[j + 1] /\ i <= j

\* C24: under SpecNms, the survivors of apply_nms are in non-increasing
\* order of confidence, those of equal confidence in ascending order of
\* their index in the input; the detection of highest confidence is the
\* first survivor; empty input gives three empty lists.
C24_SurvivorsByDescendingConfidence ==
  filtered # <<>> =>
    LET k == kept[1]
        out == filtered[1]
        conf == detections.confidences
    IN /\ Len(out.boxes) = Len(k)
       /\ Len(out.labels) = Len(k)
       /\ Len(out.confidences) = Len(k)
       /\ \A x \in 1..Len(k) :
            /\ k[x] \in 0..(Len(conf) - 1)
            /\ out.boxes[x] = detections.boxes[k[x] + 1]
            /\ out.labels[x] = detections.labels[k[x] + 1]
            /\ out.confidences[x] = conf[k[x] + 1]
       /\ \A x \in 1..(Len(k) - 1) :
            \/ out.confidences[x] > out.confidences[x + 1]
            \/ out.confidences[x] = out.confidences[x + 1] /\ k[x] < k[x + 1]
       /\ detections.boxes # <<>> => (k # <<>> /\ k[1] = Highest(conf))
       /\ detections.boxes = <<>> =>
            out = [boxes |-> <<>>, labels |-> <<>>, confidences |-> <<>>]

\* C24: three survivors, the first two of the same higher confidence and
\* the last one the first detection of the input.
C24_TiedSurvivorsAheadOfFirstInput ==
  /\ filtered # <<>>
  /\ kept[1] = <<1, 2, 0>>
  /\ filtered[1].confidences[1] = filtered[1].confidences[2]
  /\ filtered[1].confidences[2] > filtered[1].confidences[3]

\* the indices of the boxes handed to group_cards
HandIndices == 0..(Len(hand_boxes) - 1)

\* the members of a list of indices
Members(group) == {group[x] : x \in 1..Len(group)}

\* the places of a list of lists that hold index i
Places(lists, i) ==
  {p \in (1..Len(lists)) \X (1..MaxHand) :
     p[2] <= Len(lists[p[1]]) /\ lists[p[1]][p[2]] = i}

\* the lists a group_cards result is made of: the player hands and, unless
\* it is None, the dealer hand
HandLists(h) == h.player_hands \o h.dealer_hand

\* C25: under SpecGroup, the lists group_cards returns hold indices of
\* 0..n-1 only and every index of 0..n-1 in exactly one place: in one group
\* of hand_detector.group_cards, and in one player hand or once in
\* dealer_hand of detection_utils.group_cards.
C25_GroupsPartitionTheIndices ==
  /\ groups # <<>> =>
       /\ \A a \in 1..Len(groups[1]) : Members(groups[1][a]) \subseteq HandIndices
       /\ \A i \in HandIndices : Cardinality(Places(groups[1], i)) = 1
  /\ hands # <<>> =>
       /\ \A a \in 1..Len(HandLists(hands[1])) :
            Members(HandLists(hands[1])[a]) \subseteq HandIndices
       /\ \A i \in HandIndices : Cardinality(Places(HandLists(hands[1]), i)) = 1

\* C25: four boxes grouped both ways into a hand of two and two boxes on
\* their own.
C25_PairAndTwoSingles ==
  /\ groups # <<>>
  /\ hands # <<>>
  /\ Len(hand_boxes) = 4
  /\ Len(groups[1]) = 3
  /\ Len(hands[1].player_hands) = 1
  /\ hands[1].dealer_hand # <<>>
  /\ Len(hands[1].dealer_hand[1]) = 2

\* edge (i, j): compute_overlap(boxes[i], boxes[j]) >= threshold
Edge(i, j) ==
  /\ i # j
  /\ RatioGE(compute_overlap(hand_boxes[i + 1], hand_boxes[j + 1]),
             hand_threshold)

\* the indices a path of at most k edges leads to from the indices S
RECURSIVE Reach(_, _)
Reach(S, k) ==
  IF k = 0
    THEN S
    ELSE LET further == {j \in HandIndices \ S : \E i \in S : Edge(i, j)}
         IN IF further = {} THEN S ELSE Reach(S \cup further, k - 1)

\* the connected component of index i
Component(i) == Reach({i}, Len(hand_boxes))

\* C26: under SpecGroup, two indices are in the same group of
\* hand_detector.group_cards if and only if a path of edges connects them,
\* where edge (i, j) exists exactly when
\* compute_overlap(boxes[i], boxes[j]) >= threshold.
C26_SameGroupIffConnected ==
  groups # <<>> =>
    \A i \in HandIndices : \A connected \in {Component(i)} :
      \A j \in HandIndices :
        (\E a \in 1..Len(groups[1]) : {i, j} \subseteq Members(groups[1][a]))
          <=> j \in connected

\* C26: a group holding two indices that no edge joins, and an index
\* outside that group.
C26_GroupedThroughAChain ==
  /\ groups # <<>>
  /\ Len(groups[1]) = 2
  /\ \E a \in 1..Len(groups[1]) :
       \E i, j \in Members(groups[1][a]) : i # j /\ ~Edge(i, j) /\ ~Edge(j, i)

\* the connected components of the graph
AllComponents == {Component(i) : i \in HandIndices}

C28_SamePartitionBothWays ==
  (groups # <<>> /\ hands # <<>>) =>
    LET h == hands[1]
        singles == IF h.dealer_hand = <<>>
                     THEN {}
                     ELSE {{i} : i \in Members(h.dealer_hand[1])}
    IN {Members(groups[1][a]) : a \in 1..Len(groups[1])}
         = {Members(h.player_hands[a]) : a \in 1..Len(h.player_hands)}
             \cup singles

\* C28: both functions applied to boxes of which two overlap at exactly the
\* threshold and one is on its own.
C28_GroupedBothWaysAtTheThreshold ==
  /\ groups # <<>>
  /\ hands # <<>>
  /\ hands[1].dealer_hand # <<>>
  /\ hands[1].player_hands # <<>>
  /\ \E i, j \in HandIndices :
       /\ i < j
       /\ SameRatio(compute_overlap(hand_boxes[i + 1], hand_boxes[j + 1]),
                    [num |-> hand_threshold, den |-> 100])

\* C29: under Spec, from the tracker's state and for every input, a
\* detection that matches a tracked identity moves it: after update the
\* identity is stored under the detection's box only, its previous box is
\* no longer a key unless it is the detection's box, and update leaves at
\* most as many entries as there were plus the unmatched detections
\* (fails: the previous key is kept by the loop over the boxes that were
\* not detected).
C29_MatchMovesIdentity ==
  \A n \in 0..MaxDet : \A in \in CallInputs(n) :
    LET u == update(tracked_cards, infos, in.boxes, in.labels, in.confidences,
                    confirmation_frames, disappear_frames)
        unmatched == {k \in 1..n : FirstMatch(tracked_cards, in.boxes[k]) = 0}
    IN /\ \A k \in (1..n) \ unmatched :
            LET prev == tracked_cards[FirstMatch(tracked_cards, in.boxes[k])]
            IN /\ \A e \in 1..Len(u.tracked_cards) :
                    u.tracked_cards[e].ref = prev.ref
                      => u.tracked_cards[e].box = in.boxes[k]
               /\ prev.box # in.boxes[k]
                    => DictIndex(u.tracked_cards, prev.box) = 0
       /\ Len(u.tracked_cards) <= Len(tracked_cards) + Cardinality(unmatched)

\* the tracked entries whose stored box the box overlaps at or above the
\* threshold
Candidates(box) ==
  {i \in 1..Len(tracked_cards) :
     RatioGE(compute_overlap(box, tracked_cards[i].box),
             inference_overlap_threshold)}

\* the calls of update binding is checked on: well-formed boxes, and one
\* label, which lines 71-84 do not read
TrackedInputs(n) ==
  [boxes : [1..n -> Boxes], labels : [1..n -> {"7"}],
   confidences : [1..n -> Confidences]]

\* C30: under Spec, from the tracker's state and for every input, update
\* binds every detection that overlaps a tracked box at or above the
\* threshold to the identity of the earliest-inserted such entry, and makes
\* a new identity for every other detection.
C30_BindsToEarliestOverlapping ==
  \A n \in 0..MaxDet : \A in \in TrackedInputs(n) :
    \A u \in {update(tracked_cards, infos, in.boxes, in.labels, in.confidences,
                     confirmation_frames, disappear_frames)} :
      LET matched == SelectSeq([k \in 1..n |-> k],
                               LAMBDA k : Candidates(in.boxes[k]) # {})
          earliest(k) == CHOOSE i \in Candidates(in.boxes[k]) :
                           \A j \in Candidates(in.boxes[k]) : i <= j
      IN /\ Len(u.hits) = Len(matched)
         /\ Cardinality(u.born) = n - Len(matched)
         /\ \A m \in 1..Len(matched) :
              u.hits[m].ref = tracked_cards[earliest(matched[m])].ref
         /\ \A k \in 1..n :
              (\A later \in (k + 1)..n : in.boxes[later] # in.boxes[k]) =>
                LET bound == u.tracked_cards[DictIndex(u.tracked_cards,
                                                       in.boxes[k])].ref
                IN IF Candidates(in.boxes[k]) # {}
                     THEN bound = tracked_cards[earliest(k)].ref
                     ELSE bound \in u.born

\* C30: after an update whose detection at BoxBig overlapped the boxes of
\* two tracked identities: it is bound to the one inserted first, the other
\* one has gone a tick without a match.
C30_BoundToFirstOfTwo ==
  /\ Len(tracked_cards) = 3
  /\ tracked_cards[1].box = BoxBig
  /\ tracked_cards[2].ref = tracked_cards[1].ref
  /\ tracked_cards[3].ref # tracked_cards[1].ref
  /\ Overlaps(BoxBig, tracked_cards[2].box)
  /\ Overlaps(BoxBig, tracked_cards[3].box)
  /\ life[tracked_cards[1].ref].missed = 0
  /\ life[tracked_cards[3].ref].missed = 1

\* the last tick of the single-card run detected the card
SeenLast == trail # <<>> /\ trail[Len(trail)].seen

\* what the run had observed before its last tick
Before ==
  IF Len(trail) >= 2
    THEN trail[Len(trail) - 1]
    ELSE [tracked |-> 0, py_tracked |-> 0, lock_calls |-> 0,
          py_remove_calls |-> 0]

LockedLabelStep ==
  /\ \A r \in DOMAIN infos \cap DOMAIN infos' :
       /\ infos[r].locked => infos'[r].label = infos[r].label
       /\ (~infos[r].locked /\ infos'[r].locked) =>
            /\ infos'[r].label = infos[r].label
            /\ cards'[infos[r].label] < cards[infos[r].label]
  /\ \A l \in CARD_LABELS :
       cards'[l] < cards[l] =>
         \E r \in DOMAIN infos \cap DOMAIN infos' :
           ~infos[r].locked /\ infos'[r].locked /\ infos'[r].label = l
  /\ \A n \in 1..Len(py_tracked') :
       (py_tracked'[n].locked_flag /\ py_tracked'[n].id \in PyIds(py_tracked)) =>
         \E o \in 1..Len(py_tracked) :
           /\ py_tracked[o].id = py_tracked'[n].id
           /\ py_tracked[o].label = py_tracked'[n].label
           /\ \/ py_tracked[o].locked_flag
              \/ py_cards'[py_tracked[o].label] < py_cards[py_tracked[o].label]
  /\ \A l \in CARD_LABELS :
       py_cards'[l] < py_cards[l] =>
         \E n \in 1..Len(py_tracked') : \E o \in 1..Len(py_tracked) :
           /\ py_tracked[o].id = py_tracked'[n].id
           /\ ~py_tracked[o].locked_flag
           /\ py_tracked'[n].locked_flag
           /\ py_tracked'[n].label = l

\* C32: under SpecPair, in every tick and for both trackers, an identity
\* that is locked keeps its stored label whatever labels the detections
\* that match it carry, and an identity that locks does so with the stored
\* label the removal from the deck was called with.
C32_LockedLabelKept == [][LockedLabelStep]_vars

\* C32: the last tick's only detection carried another label than the
\* stored one of the identity it matched, which was locked already, in both
\* trackers.
C32_LockedMatchedUnderAnotherLabel ==
  /\ Len(frame.boxes) = 1
  /\ LET e == DictIndex(tracked_cards, frame.boxes[1])
         p == DictIndex(py_tracked, frame.boxes[1])
     IN /\ e # 0
        /\ p # 0
        /\ infos[tracked_cards[e].ref].locked
        /\ infos[tracked_cards[e].ref].label # frame.labels[1]
        /\ life[tracked_cards[e].ref].rematched >= 1
        /\ py_tracked[p].locked_flag
        /\ py_tracked[p].label # frame.labels[1]
        /\ py_life[py_tracked[p].id] = 1

\* one tick: no tracked identity loses frame_count or its lock
MonotoneStep ==
  /\ \A r \in DOMAIN infos \cap DOMAIN infos' :
       /\ infos'[r].frame_count >= infos[r].frame_count
       /\ infos[r].locked => infos'[r].locked
  /\ \A n \in 1..Len(py_tracked') :
       py_tracked'[n].id \in PyIds(py_tracked) =>
         \E o \in 1..Len(py_tracked) :
           /\ py_tracked[o].id = py_tracked'[n].id
           /\ py_tracked'[n].frame_count >= py_tracked[o].frame_count
           /\ py_tracked[o].locked_flag => py_tracked'[n].locked_flag

\* C33: under SpecPair, in every tick and for both trackers, the
\* frame_count of an identity that stays tracked does not decrease and its
\* locked flag does not go from true to false.
C33_CountAndLockMonotone == [][MonotoneStep]_vars

\* C33: a locked identity was matched again and counted beyond
\* confirmation_frames, its flag still set, while the deck-holding tracker
\* kept the matched entry locked with its count at confirmation_frames.
C33_LockedAndAgeing ==
  /\ \E r \in DOMAIN infos :
       /\ infos[r].locked
       /\ life[r].rematched >= 1
       /\ infos[r].frame_count > confirmation_frames
  /\ \E p \in 1..Len(py_tracked) :
       /\ py_tracked[p].locked_flag
       /\ py_tracked[p].frame_count = confirmation_frames
       /\ ListIndex(frame.boxes, py_tracked[p].box) # 0

\* process_frame ran on the frame read in this step
Processed == annotated_frame' = <<[frame |-> ticks', annotated |-> TRUE]>>

\* one frame of the main loop: processed only after the interval, otherwise
\* the earlier annotated frame again and the tracker and ledger as they were
RunStep ==
  /\ Processed => current_time' - last_update >= inference_interval
  /\ ~Processed =>
       /\ annotated_frame # <<>>
       /\ annotated_frame' = annotated_frame
       /\ UNCHANGED <<tracked_cards, infos, cards, running_count, last_update>>
  /\ ticks = 0 => Processed

\* C34: under SpecRun, a frame is processed only if at least
\* inference_interval passed between last_update and the reading of the
\* clock for this frame; every other frame leaves the annotated frame, the
\* tracker and the ledger as they were; the first frame read is processed.
C34_ProcessedOnlyAfterInterval == [][RunStep]_vars

\* C34: a frame read sooner than inference_interval after a processed frame
\* was skipped: the annotation on show is that of an earlier frame, and the
\* tracker holds what that frame gave it.
C34_FrameSkipped ==
  /\ ticks >= 2
  /\ annotated_frame # <<>>
  /\ annotated_frame[1].frame < ticks
  /\ current_time - last_update < inference_interval
  /\ current_time > last_update
  /\ tracked_cards # <<>>

\* C35: under SpecGroup, every group returned by hand_detector.group_cards
\* starts with the smallest of its indices, and the groups come in ascending
\* order of that index.
C35_GroupsLedBySmallest ==
  groups # <<>> =>
    LET gs == groups[1]
    IN /\ \A k \in 1..Len(gs) :
            /\ gs[k] # <<>>
            /\ \A m \in 1..Len(gs[k]) : gs[k][1] <= gs[k][m]
       /\ \A k, l \in 1..Len(gs) : k < l => gs[k][1] < gs[l][1]

\* C35: several groups were returned, one of them with its later members out
\* of ascending order.
C35_GroupOutOfOrderAfterFirst ==
  /\ groups # <<>>
  /\ Len(groups[1]) >= 2
  /\ \E k \in 1..Len(groups[1]) :
       \E a, b \in 2..Len(groups[1][k]) :
         a < b /\ groups[1][k][a] > groups[1][k][b]
  /\ \E k \in 2..Len(groups[1]) : Len(groups[1][k]) >= 2

\* the face value of a card, an Ace counted as 1
FaceValue(c) ==
  IF c = "A" THEN 1
  ELSE IF c \in {"J", "Q", "K"} THEN 10
  ELSE CHOOSE v \in 2..10 :
         <<"2", "3", "4", "5", "6", "7", "8", "9", "10">>[v - 1] = c

\* the positions of the Aces of the hand
Aces == {k \in 1..Len(hand) : hand[k] = "A"}

\* the total of the hand with the Aces of high counted as 11
RECURSIVE TotalWith(_, _)
TotalWith(high, k) ==
  IF k > Len(hand) THEN 0
  ELSE (IF k \in high THEN 11 ELSE FaceValue(hand[k])) + TotalWith(high, k + 1)

\* the best total of the hand: the largest not above 21, else all Aces as 1
BestTotal ==
  LET within == {h \in SUBSET Aces : TotalWith(h, 1) <= 21}
  IN IF within = {} THEN TotalWith({}, 1)
     ELSE CHOOSE t \in {TotalWith(h, 1) : h \in within} :
            \A h \in within : TotalWith(h, 1) <= t

\* C36: under SpecScore, for every hand over the thirteen ranks both
\* calculate_hand_score functions return the largest total not above 21
\* that counting each Ace as 1 or 11 can give, or the total with every Ace
\* as 1 when all are above 21; the result counts at most one Ace as 11.
C36_BestTotalReturned ==
  \A s \in {score, game_score} :
    s # <<>> =>
      /\ s[1] = BestTotal
      /\ s[1] - TotalWith({}, 1) \in {0, 10}

\* C36: a hand with two Aces was scored 21 by both functions, one Ace
\* counted as 11 and the other as 1.
C36_TwoAcesOneHigh ==
  /\ Cardinality(Aces) = 2
  /\ score = <<21>>
  /\ game_score = <<21>>

\* the boxes of detections i and j of the input overlap at or above the
\* threshold handed to apply_nms
Suppresses(i, j) ==
  RatioGE(compute_overlap(detections.boxes[i + 1], detections.boxes[j + 1]),
          detections.overlap_threshold)

C38_DiscardedUnderSurvivor ==
  filtered # <<>> =>
    LET n == Len(detections.boxes)
        survivors == {kept[1][x] : x \in 1..Len(kept[1])}
    IN /\ \A j \in (0..(n - 1)) \ survivors :
            \E i \in survivors :
              /\ Suppresses(i, j)
              /\ detections.confidences[i + 1] >= detections.confidences[j + 1]
       /\ \A j \in 0..(n - 1) :
            (\A i \in (0..(n - 1)) \ {j} : ~Suppresses(j, i) /\ ~Suppresses(i, j))
              => j \in survivors

\* C38: a detection was discarded under a survivor of its own confidence,
\* and a detection overlapping no other at or above the threshold survived
\* behind them.
C38_DiscardedTieAndLoneSurvivor ==
  /\ filtered # <<>>
  /\ Len(detections.boxes) = 3
  /\ \E j \in 0..2 :
       /\ \A x \in 1..Len(kept[1]) : kept[1][x] # j
       /\ \E x \in 1..Len(kept[1]) :
            /\ Suppresses(kept[1][x], j)
            /\ detections.confidences[kept[1][x] + 1] = detections.confidences[j + 1]
  /\ \E x \in 1..Len(kept[1]) :
       \A i \in (0..2) \ {kept[1][x]} : ~Suppresses(kept[1][x], i)

\* the running count the cards taken from the deck add up to
RECURSIVE CountOfTaken(_)
CountOfTaken(todo) ==
  IF todo = {} THEN 0
  ELSE LET r == CHOOSE x \in todo : TRUE
       IN ClaimedWeight(r) * (4 * size - cards[r]) + CountOfTaken(todo \ {r})

\* running_count is the weighted count of the cards taken, and is 0 for a
\* fresh deck and for a deck with no card left
CountFollowsCards ==
  /\ running_count = CountOfTaken(CARD_LABELS)
  /\ (\A r \in CARD_LABELS : cards[r] = 4 * size) => running_count = 0
  /\ (\A r \in CARD_LABELS : cards[r] = 0) => running_count = 0

\* C39 as claimed: under SpecDrain, for a deck of any size running_count is
\* the sum over the ranks of weight(r) * (4 * size - cards[r]), it lies
\* within 20 * size of 0, and it is 0 for a fresh and for an empty deck.
C39_CountWithinTwentyPerDeck ==
  /\ CountFollowsCards
  /\ running_count <= 20 * size
  /\ 0 - running_count <= 20 * size

\* C39 as amended: the same, the bound of 20 * size for a deck constructed
\* with size >= 0.
C39_CountWithinTwentyPerDeckOfSizeNotNegative ==
  /\ CountFollowsCards
  /\ size >= 0 => /\ running_count <= 20 * size
                  /\ 0 - running_count <= 20 * size

\* C39: the last card of a deck of 52 or more has just been removed and
\* running_count is 0.
C39_LastCardRemoved ==
  /\ size >= 1
  /\ \A r \in CARD_LABELS : cards[r] = 0
  /\ returned = <<TRUE>>
  /\ running_count = 0

====
